---- MODULE Spec2Model ----
(***************************************************************************)
(* A model of the AArch64-subset toolchain: the assembler (decode.c,       *)
(* decode_helper.c, symbol_table.c, assemble.c) and the emulator (cpu.c,   *)
(* register.c, memory.c).                                                  *)
(*                                                                         *)
(* Representation of machine integers.  TLC's integers are 32-bit signed,  *)
(* so a uint32_t is a sequence of two 16-bit limbs and a uint64_t a        *)
(* sequence of four, least significant limb first.  All arithmetic on      *)
(* them is done limb-wise with carries, so results wrap modulo 2^32 and    *)
(* 2^64 exactly as the C types do.  Small quantities that never leave the  *)
(* range of an int (bit-field values, emit addresses, register indices)    *)
(* are plain integers.                                                     *)
(*                                                                         *)
(* Representation of text.  A C string is a sequence of one-character      *)
(* strings; a NULL char* is the empty sequence (strtok never returns an    *)
(* empty token).  A source line is given as the sequence of tokens that    *)
(* strtok(line, ", ") yields.                                              *)
(***************************************************************************)
EXTENDS Integers, Sequences, FiniteSets, TLC

VARIABLES
    \* assembler (decode.c, symbol_table.c, assemble.c)
    instructions,      \* DArray of emitted words
    current_address,   \* emit address
    labels,            \* HashMap label -> literal address
    addresses,         \* HashMap label -> DArray of referring addresses
    asm_pc,            \* "off", "decoding", "written" (output file written), "fatal"
    nlines,            \* number of input lines consumed so far
    \* emulator (cpu.c, register.c, memory.c)
    gen_registers,     \* X0..X30
    program_counter,
    pstate,
    mem,               \* non-zero bytes of the 2 MiB memory
    cpu_pc,            \* "off", "running", "halted", "fatal", "undefined"
    last,              \* the loop iteration just performed (what was fetched)
    nsteps,            \* number of loop iterations performed
    \* inputs and results of the function-level specifications
    call               \* the call just made and what it returned

vars == <<instructions, current_address, labels, addresses, asm_pc, nlines,
          gen_registers, program_counter, pstate, mem, cpu_pc, last, nsteps,
          call>>

asm_vars == <<instructions, current_address, labels, addresses, asm_pc, nlines>>
cpu_vars == <<gen_registers, program_counter, pstate, mem, cpu_pc, last, nsteps>>

-----------------------------------------------------------------------------
(* Machine integers as limb sequences *)

\* the radix of a limb
LIMB == 2 ^ 16

Pow2(n) == 2 ^ n

\* the n-limb value of a non-negative int
FromNat(k, n) == [i \in 1..n |-> IF i = 1 THEN k % LIMB
                                 ELSE IF i = 2 THEN k \div LIMB ELSE 0]

U32(k) == FromNat(k, 2)
U64(k) == FromNat(k, 4)

\* a limb sequence written high limb first, as in a hex literal
Hex32(h, l) == <<l, h>>
Hex64(a, b, c, d) == <<d, c, b, a>>

AddL(a, b, cin) ==
    LET n == Len(a)
        c[i \in 0..n] == IF i = 0 THEN cin ELSE (a[i] + b[i] + c[i-1]) \div LIMB
    IN  [sum |-> [i \in 1..n |-> (a[i] + b[i] + c[i-1]) % LIMB], carry |-> c[n]]

NotL(a) == [i \in 1..Len(a) |-> (LIMB - 1) - a[i]]

\* a + b and a - b modulo 2^(16 * Len(a))
PlusL(a, b) == AddL(a, b, 0).sum
MinusL(a, b) == AddL(a, NotL(b), 1).sum
NegL(a) == MinusL([i \in 1..Len(a) |-> 0], a)

IsZeroL(a) == \A i \in 1..Len(a) : a[i] = 0

\* unsigned a < b
LtL(a, b) ==
    \E i \in 1..Len(a) : /\ a[i] < b[i]
                          /\ \A j \in (i+1)..Len(a) : a[j] = b[j]

\* unsigned a > b
GtL(a, b) == LtL(b, a)

\* unsigned a >= b
GeL(a, b) == ~LtL(a, b)

\* the most significant bit (MSB_32_BIT / MSB_64_BIT test)
MsbL(a) == a[Len(a)] >= 32768

\* conversions between the C integer types
Trunc32(v) == <<v[1], v[2]>>
ZExt64(v) == IF Len(v) = 4 THEN v ELSE <<v[1], v[2], 0, 0>>
\* (int64_t) of a (possibly negative) int, as a uint64_t bit pattern
Int64(k) == IF k >= 0 THEN U64(k) ELSE NegL(U64(0 - k))
\* (uint32_t) of a (possibly negative) int
Int32(k) == IF k >= 0 THEN U32(k) ELSE NegL(U32(0 - k))

\* bit i of a limb sequence
BitL(a, i) == (a[(i \div 16) + 1] \div Pow2(i % 16)) % 2

\* the limb sequence of n limbs whose bit i is f[i]
FromBits(f, n) ==
    LET s[j \in 1..n, k \in 0..16] ==
            IF k = 0 THEN 0 ELSE s[j, k-1] + f[16 * (j-1) + (k-1)] * Pow2(k-1)
    IN  [j \in 1..n |-> s[j, 16]]

\* x * 4 for a limb sequence (sizeof(word) scaling of an offset)
Twice(a) == PlusL(a, a)
Times4(a) == Twice(Twice(a))

-----------------------------------------------------------------------------
(* Instruction words: the bit-field structs of instructions.h.  A struct   *)
(* is the list of its fields in declaration order with their widths; gcc   *)
(* on a little-endian target lays them out from bit 0 upwards.             *)

StructDef == [
    GeneralDpImm  |-> << <<"NIL_1", 26>>, <<"op0", 3>>, <<"NIL_2", 3>> >>,
    GeneralDpReg  |-> << <<"NIL_1", 25>>, <<"op0", 3>>, <<"NIL_2", 4>> >>,
    GeneralDT     |-> << <<"NIL_1", 25>>, <<"op0_2", 1>>, <<"NIL_2", 1>>,
                         <<"op0_1", 1>>, <<"NIL_3", 4>> >>,
    GeneralBranch |-> << <<"NIL_1", 26>>, <<"op0", 3>>, <<"NIL_2", 3>> >>,
    ImmArith      |-> << <<"rd", 5>>, <<"rn", 5>>, <<"imm12", 12>>, <<"sh", 1>>,
                         <<"opi", 3>>, <<"op0", 3>>, <<"opc_flag", 1>>,
                         <<"opc_op", 1>>, <<"sf", 1>> >>,
    ImmWide       |-> << <<"rd", 5>>, <<"imm16", 16>>, <<"hw", 2>>, <<"opi", 3>>,
                         <<"op0", 3>>, <<"opc", 2>>, <<"sf", 1>> >>,
    RegArith      |-> << <<"rd", 5>>, <<"rn", 5>>, <<"operand", 6>>, <<"rm", 5>>,
                         <<"N", 1>>, <<"shift", 2>>, <<"id", 1>>, <<"op0", 3>>,
                         <<"M", 1>>, <<"opc_flag", 1>>, <<"opc_op", 1>>,
                         <<"sf", 1>> >>,
    RegLogic      |-> << <<"rd", 5>>, <<"rn", 5>>, <<"operand", 6>>, <<"rm", 5>>,
                         <<"N", 1>>, <<"shift", 2>>, <<"id", 1>>, <<"op0", 3>>,
                         <<"M", 1>>, <<"opc", 2>>, <<"sf", 1>> >>,
    RegMultiply   |-> << <<"rd", 5>>, <<"rn", 5>>, <<"ra", 5>>, <<"x", 1>>,
                         <<"rm", 5>>, <<"opr", 3>>, <<"id", 1>>, <<"op0", 3>>,
                         <<"M", 1>>, <<"opc", 2>>, <<"sf", 1>> >>,
    DTImmOffset   |-> << <<"rt", 5>>, <<"xn", 5>>, <<"imm12", 12>>, <<"L", 1>>,
                         <<"NIL_1", 1>>, <<"U", 1>>, <<"op0_2", 1>>,
                         <<"NIL_3", 1>>, <<"op0_1", 1>>, <<"NIL_4", 1>>,
                         <<"NIL_5", 1>>, <<"sf", 1>>, <<"id", 1>> >>,
    DTRegOffset   |-> << <<"rt", 5>>, <<"xn", 5>>, <<"NIL_1", 6>>, <<"xm", 5>>,
                         <<"id2", 1>>, <<"L", 1>>, <<"NIL_2", 1>>, <<"U", 1>>,
                         <<"op0", 4>>, <<"NIL_4", 1>>, <<"sf", 1>>, <<"id", 1>> >>,
    DTLoadLiteral |-> << <<"rt", 5>>, <<"simm19", 19>>, <<"NIL_1", 1>>,
                         <<"op0_2", 1>>, <<"NIL_2", 1>>, <<"op0_1", 1>>,
                         <<"NIL_3", 2>>, <<"sf", 1>>, <<"id", 1>> >>,
    DTPrePostIndex |-> << <<"rt", 5>>, <<"xn", 5>>, <<"NIL_1", 1>>, <<"I", 1>>,
                         <<"simm9", 9>>, <<"NIL_2", 1>>, <<"L", 1>>,
                         <<"NIL_3", 1>>, <<"U", 1>>, <<"op0", 4>>,
                         <<"NIL_4", 1>>, <<"sf", 1>>, <<"id", 1>> >>,
    BranchUncond  |-> << <<"simm26", 26>>, <<"op0", 3>>, <<"NIL_1", 1>>,
                         <<"id", 2>> >>,
    BranchCond    |-> << <<"cond", 4>>, <<"NIL_1", 1>>, <<"simm19", 19>>,
                         <<"NIL_2", 2>>, <<"op0", 3>>, <<"NIL_3", 1>>,
                         <<"id", 2>> >>,
    BranchReg     |-> << <<"NIL_1", 5>>, <<"xn", 5>>, <<"NIL_2", 6>>,
                         <<"NIL_3", 10>>, <<"op0", 3>>, <<"NIL_4", 1>>,
                         <<"id", 2>> >> ]

\* position of field f in the field list d: <<lowest bit, width>>
FieldPosIn(d, f) ==
    LET off[i \in 0..Len(d)] == IF i = 0 THEN 0 ELSE off[i-1] + d[i][2]
        At(k) == <<off[k-1], d[k][2]>>
    IN  At(CHOOSE i \in 1..Len(d) : d[i][1] = f)

\* position of field f in struct s
FieldPos(s, f) == FieldPosIn(StructDef[s], f)

\* bits lo .. lo+n-1 of a 32-bit word, as an int (n <= 26)
GetBits(w, lo, n) ==
    IF lo >= 16 THEN (w[2] \div Pow2(lo - 16)) % Pow2(n)
    ELSE IF lo + n <= 16 THEN (w[1] \div Pow2(lo)) % Pow2(n)
    ELSE (w[1] \div Pow2(lo)) + (w[2] % Pow2(lo + n - 16)) * Pow2(16 - lo)

\* a 16-bit limb with its bits lo .. lo+n-1 replaced by the low n bits of v
SetBits16(x, lo, n, v) ==
    x - ((x \div Pow2(lo)) % Pow2(n)) * Pow2(lo) + (v % Pow2(n)) * Pow2(lo)

\* a 32-bit word with its bits lo .. lo+n-1 replaced by the low n bits of the
\* int v (the conversion a bit-field assignment makes)
SetBits(w, lo, n, v) ==
    IF lo >= 16 THEN <<w[1], SetBits16(w[2], lo - 16, n, v)>>
    ELSE IF lo + n <= 16 THEN <<SetBits16(w[1], lo, n, v), w[2]>>
    ELSE <<SetBits16(w[1], lo, 16 - lo, v % Pow2(16 - lo)),
           SetBits16(w[2], 0, lo + n - 16, (v % Pow2(n)) \div Pow2(16 - lo))>>

GetAt(w, p) == GetBits(w, p[1], p[2])
SetAt(w, p, v) == SetBits(w, p[1], p[2], v)

\* inst.<s>.<f>
Get(w, s, f) == GetAt(w, FieldPos(s, f))

\* inst.<s>.<f> = v
Set(w, s, f, v) == SetAt(w, FieldPos(s, f), v)

\* enum InstTypePatterns, BranchConditions, WideMoveOperations,
\* LogicOperations, ShiftOperations
ITP_DP_IMM == 4
ITP_IMM_ARITH == 2
ITP_WIDE_MOVE == 5
ITP_DP_REG == 5
ITP_REG_MULTIPLY == 1
ITP_REG_ARITH == 1
ITP_REG_LOGIC == 0
ITP_DT_1 == 1
ITP_DT_2 == 0
ITP_DT_LOAD_LITERAL == 0
ITP_DT_IMM_OFFSET == 1
ITP_DT_REGISTER_OFFSET == 1
ITP_DT_PRE_INDEX == 1
ITP_DT_POST_INDEX == 0
ITP_BRANCH == 5
ITP_BRANCH_UNCOND == 0
ITP_BRANCH_COND == 1
ITP_BRANCH_REG == 3
ITP_EQ == 0
ITP_NE == 1
ITP_GE == 10
ITP_LT == 11
ITP_GT == 12
ITP_LE == 13
ITP_AL == 14
ITP_MOVN == 0
ITP_MOVZ == 2
ITP_MOVK == 3
ITP_AND == 0
ITP_OR == 1
ITP_XOR == 2
ITP_AND_W_FLAGS == 3
ITP_LSL == 0
ITP_LSR == 1
ITP_ASR == 2
ITP_ROR == 3

INSTR_SIZE == 4
HALT_INSTRUCTION == Hex32(35328, 0)    \* 0x8a000000

-----------------------------------------------------------------------------
(* Text: C strings as sequences of characters *)

NULL == << >>

LowerChars == {"a","b","c","d","e","f","g","h","i","j","k","l","m",
               "n","o","p","q","r","s","t","u","v","w","x","y","z"}
UpperChars == {"A","B","C","D","E","F","G","H","I","J","K","L","M",
               "N","O","P","Q","R","S","T","U","V","W","X","Y","Z"}
DigitChars == {"0","1","2","3","4","5","6","7","8","9"}

isalpha(c) == c \in LowerChars \cup UpperChars
isalnum(c) == isalpha(c) \/ c \in DigitChars

DigitVal(c) ==
    CASE c = "0" -> 0 [] c = "1" -> 1 [] c = "2" -> 2 [] c = "3" -> 3
      [] c = "4" -> 4 [] c = "5" -> 5 [] c = "6" -> 6 [] c = "7" -> 7
      [] c = "8" -> 8 [] c = "9" -> 9
      [] c \in {"a", "A"} -> 10 [] c \in {"b", "B"} -> 11
      [] c \in {"c", "C"} -> 12 [] c \in {"d", "D"} -> 13
      [] c \in {"e", "E"} -> 14 [] c \in {"f", "F"} -> 15
      [] OTHER -> 16

\* str + k
Skip(str, k) == SubSeq(str, k + 1, Len(str))

\* strncmp(str, lit, Len(lit)) == 0
StartsWith(str, lit) == Len(str) >= Len(lit) /\ SubSeq(str, 1, Len(lit)) = lit

\* the length of the longest prefix of str made of digits of the base
DigitRun(str, base) ==
    LET n == Len(str)
        r[i \in 0..n] == IF i = 0 THEN 0
                         ELSE IF r[i-1] = i - 1 /\ DigitVal(str[i]) < base
                              THEN i ELSE r[i-1]
    IN  r[n]

\* the value of the decimal digits that body starts with
DecValue(body) ==
    LET v[i \in 0..Len(body)] ==
            IF i = 0 THEN 0 ELSE v[i-1] * 10 + DigitVal(body[i])
    IN  v[DigitRun(body, 10)]

\* atoi: optional sign, then decimal digits up to the first other character
atoi(str) ==
    IF Len(str) > 0 /\ str[1] = "-" THEN 0 - DecValue(Skip(str, 1))
    ELSE IF Len(str) > 0 /\ str[1] = "+" THEN DecValue(Skip(str, 1))
    ELSE DecValue(str)

\* the uint32_t value of the hex digits that body starts with
HexValue(body) ==
    LET times16(w) == <<(w[1] * 16) % LIMB, (w[2] * 16 + (w[1] * 16) \div LIMB) % LIMB>>
        v[i \in 0..Len(body)] ==
            IF i = 0 THEN U32(0)
            ELSE PlusL(times16(v[i-1]), U32(DigitVal(body[i])))
    IN  v[DigitRun(body, 16)]

\* (unsigned int) strtol(str, NULL, 16) of a string that starts with "0x"
strtol16(str) == HexValue(Skip(str, 2))

\* unsigned division of a uint32_t by a power of two d <= 65536
DivU32(w, d) == <<(w[1] \div d) + (w[2] % d) * (LIMB \div d), w[2] \div d>>

-----------------------------------------------------------------------------
(* decode_helper.h / decode_helper.c *)

OPCODE_SIZE == 10
MAX_NUM_OPERANDS == 5
ZERO_REGISTER == <<"r", "z", "r">>
ZERO_REGISTER_INDEX == 31
DIV_VAL_HW == 16
DT_REG_PATTERN == 26
BR_REG_PATTERN == 543
MIN_ADD_SUB_OPERANDS == 3
MIN_MUL_OPERANDS == 4
MIN_LOGIC_OPERANDS == 3
MIN_WIDE_MOVE_OPERANDS == 2
MIN_LOAD_STORE_OPERANDS == 2
MIN_BRANCH_OPERANDS == 1

opcode_names == [
    OP_ADD |-> <<"a","d","d">>,      OP_ADDS |-> <<"a","d","d","s">>,
    OP_SUB |-> <<"s","u","b">>,      OP_SUBS |-> <<"s","u","b","s">>,
    OP_NEG |-> <<"n","e","g">>,      OP_NEGS |-> <<"n","e","g","s">>,
    OP_CMN |-> <<"c","m","n">>,      OP_CMP  |-> <<"c","m","p">>,
    OP_M_ADD |-> <<"m","a","d","d">>, OP_M_SUB |-> <<"m","s","u","b">>,
    OP_MUL |-> <<"m","u","l">>,      OP_M_NEG |-> <<"m","n","e","g">>,
    OP_LSL |-> <<"l","s","l">>,      OP_LSR |-> <<"l","s","r">>,
    OP_ASR |-> <<"a","s","r">>,      OP_ROR |-> <<"r","o","r">>,
    OP_AND |-> <<"a","n","d">>,      OP_ANDS |-> <<"a","n","d","s">>,
    OP_BIC |-> <<"b","i","c">>,      OP_BICS |-> <<"b","i","c","s">>,
    OP_EOR |-> <<"e","o","r">>,      OP_EON |-> <<"e","o","n">>,
    OP_ORR |-> <<"o","r","r">>,      OP_ORN |-> <<"o","r","n">>,
    OP_TST |-> <<"t","s","t">>,      OP_MVN |-> <<"m","v","n">>,
    OP_MOV |-> <<"m","o","v">>,
    OP_MOVN |-> <<"m","o","v","n">>, OP_MOVK |-> <<"m","o","v","k">>,
    OP_MOVZ |-> <<"m","o","v","z">>,
    OP_LDR |-> <<"l","d","r">>,      OP_STR |-> <<"s","t","r">>,
    OP_B |-> <<"b">>,                OP_BR |-> <<"b","r">>,
    OP_B_COND |-> <<"b",".">>,
    OP_EQ |-> <<"e","q">>, OP_NE |-> <<"n","e">>, OP_GE |-> <<"g","e">>,
    OP_LT |-> <<"l","t">>, OP_GT |-> <<"g","t">>, OP_LE |-> <<"l","e">>,
    OP_AL |-> <<"a","l">> ]

is_zero_register(str) == Skip(str, 1) = <<"z", "r">>
is_bit_mode_32(str) == Len(str) > 0 /\ str[1] = "w"
is_bit_mode_64(str) == Len(str) > 0 /\ str[1] = "x"
is_valid_register(str) ==
    is_bit_mode_32(str) \/ is_bit_mode_64(str) \/ is_zero_register(str)
is_hex_number(str) == StartsWith(str, <<"0", "x">>)
is_immediate(str) == Len(str) > 0 /\ str[1] = "#"
is_set_flags(opcode) == Len(opcode) = 4
is_pre_index(str) == Len(str) > 0 /\ str[Len(str)] = "!"

is_label(str) == Len(str) > 0 /\ str[Len(str)] = ":"

is_label_literal(str) ==
    /\ Len(str) > 0
    /\ isalpha(str[1]) \/ str[1] \in {"_", "."}
    /\ \A i \in 2..Len(str) : isalnum(str[i]) \/ str[i] \in {"$", "_", "."}

is_directive(str) == Len(str) > 0 /\ str[1] = "."
is_int_directive(str) == str = <<".", "i", "n", "t">>

\* read_reg_value aborts on an invalid register name
read_reg_ok(seg) == seg /= NULL /\ is_valid_register(seg)

\* The unsigned int that read_reg_value returns.  Only reached for a valid
\* name; the caller stores it in a 5-bit field.
read_reg_value(seg) ==
    IF is_zero_register(seg) THEN ZERO_REGISTER_INDEX ELSE atoi(Skip(seg, 1))

\* The uint32_t that read_imm_value returns.
read_imm_value(seg) ==
    LET Value(s) == IF is_hex_number(s) THEN strtol16(s) ELSE Int32(atoi(s))
    IN  Value(IF is_immediate(seg) THEN Skip(seg, 1) ELSE seg)

ShiftNames == {<<"l", "s", "l">>, <<"l", "s", "r">>, <<"a", "s", "r">>,
               <<"r", "o", "r">>}

\* read_shift_type exits on any other name
read_shift_ok(seg) == seg \in ShiftNames

\* every shift name read as lsl
read_shift_type_lsl(seg) == 0

read_shift_type(seg) ==
    CASE seg = <<"l", "s", "l">> -> ITP_LSL
      [] seg = <<"l", "s", "r">> -> ITP_LSR
      [] seg = <<"a", "s", "r">> -> ITP_ASR
      [] seg = <<"r", "o", "r">> -> ITP_ROR

CondNames == {<<"e", "q">>, <<"n", "e">>, <<"g", "e">>, <<"l", "t">>,
              <<"g", "t">>, <<"l", "e">>, <<"a", "l">>}

\* read_branch_cond_type exits on any other suffix
read_branch_cond_ok(opcode) == Skip(opcode, 2) \in CondNames

read_branch_cond_type(opcode) ==
    LET Cond(c) == CASE c = <<"e", "q">> -> ITP_EQ
                     [] c = <<"n", "e">> -> ITP_NE
                     [] c = <<"g", "e">> -> ITP_GE
                     [] c = <<"l", "t">> -> ITP_LT
                     [] c = <<"g", "t">> -> ITP_GT
                     [] c = <<"l", "e">> -> ITP_LE
                     [] c = <<"a", "l">> -> ITP_AL
    IN  Cond(Skip(opcode, 2))

\* is_opcode(opcode, (Opcode[]) {...}, n)
is_opcode(opcode, ops) == \E o \in ops : opcode = opcode_names[o]

\* assert_num_opcodes: the first num_required operands are not NULL
assert_num_opcodes(operands, num_required) ==
    \A i \in 1..num_required : operands[i] /= NULL

\* B(c): 1 for true, 0 for false, as a C comparison yields
B(c) == IF c THEN 1 ELSE 0



-----------------------------------------------------------------------------
(* symbol_table.c *)

\* a HashMap as a function on the set of its keys
hashmap_init == [k \in {} |-> 0]
hashmap_contains(map, key) == key \in DOMAIN map
hashmap_set(map, key, value) ==
    [k \in DOMAIN map \cup {key} |-> IF k = key THEN value ELSE map[k]]

\* C integer division (truncation towards zero)
CDiv(a, b) == IF a >= 0 THEN a \div b ELSE 0 - ((0 - a) \div b)

\* (uint32_t a - uint32_t b) / INSTR_SIZE converted to int, for addresses
\* below 2^31: the subtraction wraps modulo 2^32 before the division
USubDiv4(a, b) ==
    IF a >= b THEN (a - b) \div INSTR_SIZE
    ELSE 1073741824 - (((b - a) + (INSTR_SIZE - 1)) \div INSTR_SIZE)

\* a sequence of <<struct, field, int>> assignments made to inst in order
Assign(w, as) ==
    LET r[i \in 0..Len(as)] ==
            IF i = 0 THEN w ELSE Set(r[i-1], as[i][1], as[i][2], as[i][3])
    IN  r[Len(as)]

\* modify_line with the byte distance written in place of the word distance
modify_line_unscaled(instruction, instruction_address, literal_address) ==
    IF Get(instruction, "BranchUncond", "id") = ITP_BRANCH_UNCOND
    THEN [ok |-> TRUE,
          data |-> Set(instruction, "BranchUncond", "simm26",
                       literal_address - instruction_address)]
    ELSE [ok |-> TRUE,
          data |-> Set(instruction, "BranchCond", "simm19",
                       literal_address - instruction_address)]

\* modify_line: [ok, data]; not ok is the exit(EXIT_FAILURE) at its end
modify_line(instruction, instruction_address, literal_address) ==
    LET Patch(offset) ==
            IF Get(instruction, "GeneralBranch", "op0") = ITP_BRANCH
               /\ Get(instruction, "BranchUncond", "id") = ITP_BRANCH_UNCOND
            THEN [ok |-> TRUE,
                  data |-> Set(instruction, "BranchUncond", "simm26", offset)]
            ELSE IF Get(instruction, "GeneralBranch", "op0") = ITP_BRANCH
                    /\ Get(instruction, "BranchCond", "id") = ITP_BRANCH_COND
            THEN [ok |-> TRUE,
                  data |-> Set(instruction, "BranchCond", "simm19", offset)]
            ELSE IF /\ Get(instruction, "GeneralDT", "op0_1") = ITP_DT_1
                    /\ Get(instruction, "GeneralDT", "op0_2") = ITP_DT_2
                    /\ Get(instruction, "DTLoadLiteral", "id") = ITP_DT_LOAD_LITERAL
            THEN [ok |-> TRUE,
                  data |-> Set(instruction, "DTLoadLiteral", "simm19", offset)]
            ELSE [ok |-> FALSE, data |-> instruction]
    IN  Patch(USubDiv4(literal_address, instruction_address))

\* The words after the loop of symbol_table_add_label over the referring
\* addresses refs: [ok, instructions]
PatchAll(instrs, refs, literal_address) ==
    LET One(prev, ref, idx) ==
            LET Put(m) == [ok |-> m.ok,
                           instructions |-> [prev.instructions EXCEPT ![idx] = m.data]]
            IN  IF ~prev.ok \/ idx > Len(prev.instructions)
                THEN [ok |-> FALSE, instructions |-> prev.instructions]
                ELSE Put(modify_line(prev.instructions[idx], ref, literal_address))
        r[i \in 0..Len(refs)] ==
            IF i = 0 THEN [ok |-> TRUE, instructions |-> instrs]
            ELSE One(r[i-1], refs[i], (refs[i] \div INSTR_SIZE) + 1)
    IN  r[Len(refs)]

\* a definition that is stored and patched without the test for an earlier one
symbol_table_add_label_again(instrs, labs, addrs, literal_address, label) ==
    LET Patched(p) == [ok |-> p.ok,
                       labels |-> hashmap_set(labs, label, literal_address),
                       instructions |-> p.instructions]
    IN  IF ~hashmap_contains(addrs, label)
        THEN [ok |-> TRUE, labels |-> hashmap_set(labs, label, literal_address),
              instructions |-> instrs]
        ELSE Patched(PatchAll(instrs, addrs[label], literal_address))

\* symbol_table_add_label: [ok, labels, instructions]; not ok is the failed
\* assertion on a second definition (or the exit of modify_line)
symbol_table_add_label(instrs, labs, addrs, literal_address, label) ==
    LET Patched(p) == [ok |-> p.ok,
                       labels |-> hashmap_set(labs, label, literal_address),
                       instructions |-> p.instructions]
    IN  IF hashmap_contains(labs, label)
        THEN [ok |-> FALSE, labels |-> labs, instructions |-> instrs]
        ELSE IF ~hashmap_contains(addrs, label)
        THEN [ok |-> TRUE, labels |-> hashmap_set(labs, label, literal_address),
              instructions |-> instrs]
        ELSE Patched(PatchAll(instrs, addrs[label], literal_address))

\* symbol_table_get_address: [ret, addresses]
symbol_table_get_address(labs, addrs, instruction_address, label) ==
    IF hashmap_contains(labs, label)
    THEN [ret |-> CDiv(labs[label] - instruction_address, INSTR_SIZE),
          addresses |-> addrs]
    ELSE IF hashmap_contains(addrs, label)
    THEN [ret |-> 0,
          addresses |-> [addrs EXCEPT ![label] = Append(@, instruction_address)]]
    ELSE [ret |-> 0,
          addresses |-> hashmap_set(addrs, label, <<instruction_address>>)]

-----------------------------------------------------------------------------
(* decode.c: the encoders.  Each returns [ok, data, addresses]: ok is      *)
(* FALSE when the call ends the process (a failed assertion, an exit, or   *)
(* the dereference of a NULL operand), data is the assembled word and      *)
(* addresses the pending map after any call of symbol_table_get_address.   *)

Enc(ok, data, addrs) == [ok |-> ok, data |-> data, addresses |-> addrs]

\* the low n bits of a uint32_t, as the int stored in an n-bit field
F(imm, n) == GetBits(imm, 0, n)

\* enum OperandIndex, shifted by one: sequences are indexed from 1
OPERAND_1 == 1
OPERAND_2 == 2
OPERAND_3 == 3
OPERAND_4 == 4
OPERAND_5 == 5

\* the bit mode of the instruction: taken from operand 2 when operand 1 is
\* a zero register
\* the register mode read from operand 2 whatever operand 1 is
BitModeOperand2(operands) == B(is_bit_mode_64(operands[OPERAND_2]))

BitMode(operands) ==
    IF is_zero_register(operands[OPERAND_1])
    THEN B(is_bit_mode_64(operands[OPERAND_2]))
    ELSE B(is_bit_mode_64(operands[OPERAND_1]))

assemble_multiply(opcode, operands, addrs) ==
    IF ~assert_num_opcodes(operands, MIN_MUL_OPERANDS)
       \/ \E i \in {OPERAND_1, OPERAND_2, OPERAND_3, OPERAND_4} :
              ~read_reg_ok(operands[i])
    THEN Enc(FALSE, U32(0), addrs)
    ELSE Enc(TRUE, Assign(U32(0), <<
            <<"RegMultiply", "op0", ITP_DP_REG>>,
            <<"RegMultiply", "M", 1>>,
            <<"RegMultiply", "id", 1>>,
            <<"RegMultiply", "sf", B(is_bit_mode_64(operands[OPERAND_1]))>>,
            <<"RegMultiply", "rd", read_reg_value(operands[OPERAND_1])>>,
            <<"RegMultiply", "rn", read_reg_value(operands[OPERAND_2])>>,
            <<"RegMultiply", "rm", read_reg_value(operands[OPERAND_3])>>,
            <<"RegMultiply", "ra", read_reg_value(operands[OPERAND_4])>>,
            <<"RegMultiply", "x", B(is_opcode(opcode, {"OP_M_SUB", "OP_M_NEG"}))>> >>),
             addrs)

assemble_add_sub(opcode, operands, addrs) ==
    LET Rest(common) ==
            IF is_immediate(operands[OPERAND_3])
            THEN Enc(TRUE, Assign(common, <<
                    <<"ImmArith", "op0", ITP_DP_IMM>>,
                    <<"ImmArith", "opi", ITP_IMM_ARITH>>,
                    <<"ImmArith", "sh",
                      IF operands[OPERAND_5] /= NULL
                      THEN B(~IsZeroL(read_imm_value(operands[OPERAND_5])))
                      ELSE 0>>,
                    <<"ImmArith", "imm12",
                      F(read_imm_value(operands[OPERAND_3]), 12)>> >>), addrs)
            ELSE IF ~read_reg_ok(operands[OPERAND_3])
                    \/ (operands[OPERAND_4] /= NULL
                        /\ (~read_shift_ok(operands[OPERAND_4])
                            \/ operands[OPERAND_5] = NULL))
            THEN Enc(FALSE, U32(0), addrs)
            ELSE Enc(TRUE, Assign(common, <<
                    <<"RegArith", "op0", ITP_DP_REG>>,
                    <<"RegArith", "id", ITP_REG_ARITH>>,
                    <<"RegArith", "rm", read_reg_value(operands[OPERAND_3])>>,
                    <<"RegArith", "shift",
                      IF operands[OPERAND_4] /= NULL
                      THEN read_shift_type(operands[OPERAND_4]) ELSE 0>>,
                    <<"RegArith", "operand",
                      IF operands[OPERAND_4] /= NULL
                      THEN F(read_imm_value(operands[OPERAND_5]), 6) ELSE 0>> >>),
                     addrs)
    IN  IF ~assert_num_opcodes(operands, MIN_ADD_SUB_OPERANDS)
           \/ ~read_reg_ok(operands[OPERAND_2]) \/ ~read_reg_ok(operands[OPERAND_1])
        THEN Enc(FALSE, U32(0), addrs)
        ELSE Rest(Assign(U32(0), <<
                <<"ImmArith", "sf", BitMode(operands)>>,
                <<"ImmArith", "opc_op", B(StartsWith(opcode, <<"s", "u", "b">>))>>,
                <<"ImmArith", "opc_flag", B(is_set_flags(opcode))>>,
                <<"ImmArith", "rn", read_reg_value(operands[OPERAND_2])>>,
                <<"ImmArith", "rd", read_reg_value(operands[OPERAND_1])>> >>))

assemble_wide_move(opcode, operands, addrs) ==
    IF ~assert_num_opcodes(operands, MIN_WIDE_MOVE_OPERANDS)
       \/ ~read_reg_ok(operands[OPERAND_1])
       \/ (operands[OPERAND_3] /= NULL /\ operands[OPERAND_4] = NULL)
    THEN Enc(FALSE, U32(0), addrs)
    ELSE Enc(TRUE, Assign(U32(0), <<
            <<"ImmWide", "opi", ITP_WIDE_MOVE>>,
            <<"ImmWide", "op0", ITP_DP_IMM>>,
            <<"ImmWide", "sf", BitMode(operands)>>,
            <<"ImmWide", "opc",
              IF is_opcode(opcode, {"OP_MOVN"}) THEN ITP_MOVN
              ELSE IF is_opcode(opcode, {"OP_MOVK"}) THEN ITP_MOVK
              ELSE IF is_opcode(opcode, {"OP_MOVZ"}) THEN ITP_MOVZ ELSE 0>>,
            <<"ImmWide", "rd", read_reg_value(operands[OPERAND_1])>>,
            <<"ImmWide", "imm16", F(read_imm_value(operands[OPERAND_2]), 16)>>,
            <<"ImmWide", "hw",
              IF operands[OPERAND_3] /= NULL
              THEN F(DivU32(read_imm_value(operands[OPERAND_4]), DIV_VAL_HW), 2)
              ELSE 0>> >>),
             addrs)

assemble_logic(opcode, operands, addrs) ==
    IF ~assert_num_opcodes(operands, MIN_LOGIC_OPERANDS)
       \/ (operands[OPERAND_4] /= NULL
           /\ (~read_shift_ok(operands[OPERAND_4]) \/ operands[OPERAND_5] = NULL))
       \/ \E i \in {OPERAND_1, OPERAND_2, OPERAND_3} : ~read_reg_ok(operands[i])
    THEN Enc(FALSE, U32(0), addrs)
    ELSE Enc(TRUE, Assign(U32(0), <<
            <<"RegLogic", "op0", ITP_DP_REG>>,
            <<"RegLogic", "sf", BitMode(operands)>>,
            <<"RegLogic", "opc",
              IF is_opcode(opcode, {"OP_AND", "OP_BIC"}) THEN ITP_AND
              ELSE IF is_opcode(opcode, {"OP_ORR", "OP_ORN"}) THEN ITP_OR
              ELSE IF is_opcode(opcode, {"OP_EOR", "OP_EON"}) THEN ITP_XOR
              ELSE IF is_opcode(opcode, {"OP_ANDS", "OP_BICS"}) THEN ITP_AND_W_FLAGS
              ELSE 0>>,
            <<"RegLogic", "N",
              B(is_opcode(opcode, {"OP_BIC", "OP_ORN", "OP_EON", "OP_BICS"}))>>,
            <<"RegLogic", "shift",
              IF operands[OPERAND_4] /= NULL
              THEN read_shift_type(operands[OPERAND_4]) ELSE 0>>,
            <<"RegLogic", "operand",
              IF operands[OPERAND_4] /= NULL
              THEN F(read_imm_value(operands[OPERAND_5]), 6) ELSE 0>>,
            <<"RegLogic", "rd", read_reg_value(operands[OPERAND_1])>>,
            <<"RegLogic", "rn", read_reg_value(operands[OPERAND_2])>>,
            <<"RegLogic", "rm", read_reg_value(operands[OPERAND_3])>> >>),
             addrs)

\* str with its character at C index k overwritten by the terminator
CutAt(str, k) == SubSeq(str, 1, k)

assemble_load_store(opcode, operands, cur, labs, addrs) ==
    LET op2 == operands[OPERAND_2]
        op3 == operands[OPERAND_3]
        Literal(lit) ==
            LET Ref(g) == Enc(TRUE, Set(lit, "DTLoadLiteral", "simm19", g.ret),
                              g.addresses)
            IN  IF is_label_literal(op2)
                THEN Ref(symbol_table_get_address(labs, addrs, cur, op2))
                ELSE IF is_immediate(op2)
                THEN Enc(TRUE, Set(lit, "DTLoadLiteral", "simm19",
                                   F(DivU32(read_imm_value(op2), INSTR_SIZE), 19)),
                         addrs)
                ELSE Enc(FALSE, lit, addrs)
        Indexed(inst, len) ==
            IF op3 = NULL
            THEN Enc(TRUE, Set(inst, "DTImmOffset", "U", 1), addrs)
            ELSE IF is_pre_index(op3)
            THEN IF len < 2 THEN Enc(FALSE, inst, addrs)
                 ELSE Enc(TRUE, Assign(inst, <<
                        <<"DTPrePostIndex", "I", 1>>,
                        <<"DTPrePostIndex", "NIL_1", 1>>,
                        <<"DTPrePostIndex", "simm9",
                          F(read_imm_value(CutAt(op3, len - 2)), 9)>> >>), addrs)
            ELSE IF is_immediate(op3) /\ op3[len] /= "]"
            THEN Enc(TRUE, Assign(inst, <<
                        <<"DTPrePostIndex", "NIL_1", 1>>,
                        <<"DTPrePostIndex", "simm9",
                          F(read_imm_value(op3), 9)>> >>), addrs)
            ELSE IF is_immediate(op3)
            THEN Enc(TRUE, Assign(inst, <<
                        <<"DTImmOffset", "U", 1>>,
                        <<"DTImmOffset", "imm12",
                          IF Get(inst, "DTImmOffset", "sf") = 1
                          THEN F(DivU32(read_imm_value(op3), 8), 12)
                          ELSE F(DivU32(read_imm_value(op3), 4), 12)>> >>), addrs)
            ELSE IF op3[len] = "]"
            THEN IF ~read_reg_ok(CutAt(op3, len - 1)) THEN Enc(FALSE, inst, addrs)
                 ELSE Enc(TRUE, Assign(inst, <<
                        <<"DTRegOffset", "id2", 1>>,
                        <<"DTRegOffset", "NIL_1", DT_REG_PATTERN>>,
                        <<"DTRegOffset", "xm",
                          read_reg_value(CutAt(op3, len - 1))>> >>), addrs)
            ELSE Enc(FALSE, inst, addrs)
        Rest(common) ==
            IF op3 = NULL /\ op2[1] /= "["
            THEN Literal(Assign(common, << <<"DTLoadLiteral", "op0_1", 1>>,
                                           <<"DTLoadLiteral", "NIL_3", 1>> >>))
            ELSE IF ~read_reg_ok(Skip(op2, 1)) THEN Enc(FALSE, common, addrs)
            ELSE Indexed(Assign(common, <<
                    <<"DTImmOffset", "id", 1>>,
                    <<"DTImmOffset", "NIL_5", 1>>,
                    <<"DTImmOffset", "NIL_4", 1>>,
                    <<"DTImmOffset", "op0_1", 1>>,
                    <<"DTImmOffset", "L", B(is_opcode(opcode, {"OP_LDR"}))>>,
                    <<"DTImmOffset", "xn", read_reg_value(Skip(op2, 1))>> >>),
                         Len(op3))
    IN  IF ~assert_num_opcodes(operands, MIN_LOAD_STORE_OPERANDS)
           \/ ~read_reg_ok(operands[OPERAND_1])
        THEN Enc(FALSE, U32(0), addrs)
        ELSE Rest(Assign(U32(0), <<
                <<"DTImmOffset", "rt", read_reg_value(operands[OPERAND_1])>>,
                <<"DTImmOffset", "sf", B(is_bit_mode_64(operands[OPERAND_1]))>> >>))

assemble_branch(opcode, operands, cur, labs, addrs) ==
    LET op1 == operands[OPERAND_1]
        Uncond(base, g) ==
            Enc(TRUE, Assign(base, <<
                <<"BranchUncond", "id", ITP_BRANCH_UNCOND>>,
                <<"BranchUncond", "simm26", g.ret>> >>), g.addresses)
        Cond(base, g) ==
            Enc(TRUE, Assign(base, <<
                <<"BranchCond", "id", ITP_BRANCH_COND>>,
                <<"BranchCond", "cond", read_branch_cond_type(opcode)>>,
                <<"BranchCond", "simm19", g.ret>> >>), g.addresses)
        Rest(base) ==
            IF is_opcode(opcode, {"OP_B"})
            THEN IF ~is_label_literal(op1) THEN Enc(FALSE, base, addrs)
                 ELSE Uncond(base, symbol_table_get_address(labs, addrs, cur, op1))
            ELSE IF StartsWith(opcode, <<"b", ".">>)
            THEN IF ~read_branch_cond_ok(opcode) \/ ~is_label_literal(op1)
                 THEN Enc(FALSE, base, addrs)
                 ELSE Cond(base, symbol_table_get_address(labs, addrs, cur, op1))
            ELSE IF is_opcode(opcode, {"OP_BR"})
            THEN IF ~read_reg_ok(op1) THEN Enc(FALSE, base, addrs)
                 ELSE Enc(TRUE, Assign(base, <<
                        <<"BranchReg", "id", ITP_BRANCH_REG>>,
                        <<"BranchReg", "NIL_3", BR_REG_PATTERN>>,
                        <<"BranchReg", "xn", read_reg_value(op1)>> >>), addrs)
            ELSE Enc(FALSE, base, addrs)
    IN  IF ~assert_num_opcodes(operands, MIN_BRANCH_OPERANDS)
        THEN Enc(FALSE, U32(0), addrs)
        ELSE Rest(Set(U32(0), "BranchCond", "op0", ITP_BRANCH))

\* convert_aliases: the opcode and operands after the in-place rewriting
convert_aliases(opcode, operands) ==
    LET R(o, p) == [opcode |-> opcode_names[o], operands |-> p]
        \* op3 = op2; op2 = rzr
        Insert(ops) == [[ops EXCEPT ![OPERAND_3] = ops[OPERAND_2]]
                             EXCEPT ![OPERAND_2] = ZERO_REGISTER]
        \* op3 = op2; op2 = op1; op1 = rzr
        Front(ops) == [[[ops EXCEPT ![OPERAND_3] = ops[OPERAND_2]]
                             EXCEPT ![OPERAND_2] = ops[OPERAND_1]]
                             EXCEPT ![OPERAND_1] = ZERO_REGISTER]
        \* grp: the opcode is one of the aliases that may carry a shift;
        \* ops: the operands after the shift operands were moved across
        Conv(grp, ops) ==
            IF grp /\ is_opcode(opcode, {"OP_NEG"}) THEN R("OP_SUB", Insert(ops))
            ELSE IF grp /\ is_opcode(opcode, {"OP_NEGS"}) THEN R("OP_SUBS", Insert(ops))
            ELSE IF grp /\ is_opcode(opcode, {"OP_CMN"}) THEN R("OP_ADDS", Front(ops))
            ELSE IF grp /\ is_opcode(opcode, {"OP_CMP"}) THEN R("OP_SUBS", Front(ops))
            ELSE IF is_opcode(opcode, {"OP_MUL"})
            THEN R("OP_M_ADD", [ops EXCEPT ![OPERAND_4] = ZERO_REGISTER])
            ELSE IF is_opcode(opcode, {"OP_M_NEG"})
            THEN R("OP_M_SUB", [ops EXCEPT ![OPERAND_4] = ZERO_REGISTER])
            ELSE IF is_opcode(opcode, {"OP_TST"}) THEN R("OP_ANDS", Front(ops))
            ELSE IF is_opcode(opcode, {"OP_MVN"}) THEN R("OP_ORN", Insert(ops))
            ELSE IF is_opcode(opcode, {"OP_MOV"}) THEN R("OP_ORR", Insert(ops))
            ELSE [opcode |-> opcode, operands |-> ops]
    IN  IF is_opcode(opcode, {"OP_NEG", "OP_NEGS", "OP_CMP", "OP_CMN", "OP_TST"})
        THEN IF operands[OPERAND_3] /= NULL
             THEN Conv(TRUE, [[operands EXCEPT ![OPERAND_5] = operands[OPERAND_4]]
                                        EXCEPT ![OPERAND_4] = operands[OPERAND_3]])
             ELSE Conv(TRUE, operands)
        ELSE Conv(FALSE, operands)

determine_and_assemble(opcode, operands, cur, labs, addrs) ==
    IF is_directive(opcode)
    THEN IF ~is_int_directive(opcode) \/ operands[OPERAND_1] = NULL
         THEN Enc(FALSE, U32(0), addrs)
         ELSE Enc(TRUE, read_imm_value(operands[OPERAND_1]), addrs)
    ELSE IF is_opcode(opcode, {"OP_ADD", "OP_ADDS", "OP_SUB", "OP_SUBS"})
    THEN assemble_add_sub(opcode, operands, addrs)
    ELSE IF is_opcode(opcode, {"OP_M_ADD", "OP_M_SUB"})
    THEN assemble_multiply(opcode, operands, addrs)
    ELSE IF is_opcode(opcode, {"OP_AND", "OP_ANDS", "OP_BIC", "OP_BICS",
                               "OP_ORN", "OP_ORR", "OP_EOR", "OP_EON"})
    THEN assemble_logic(opcode, operands, addrs)
    ELSE IF is_opcode(opcode, {"OP_MOVN", "OP_MOVZ", "OP_MOVK"})
    THEN assemble_wide_move(opcode, operands, addrs)
    ELSE IF is_opcode(opcode, {"OP_LDR", "OP_STR"})
    THEN assemble_load_store(opcode, operands, cur, labs, addrs)
    ELSE IF is_opcode(opcode, {"OP_B", "OP_BR"}) \/ StartsWith(opcode, <<"b", ".">>)
    THEN assemble_branch(opcode, operands, cur, labs, addrs)
    ELSE Enc(FALSE, U32(0), addrs)

\* the operands array that the strtok loop of decode fills from a line
OperandsOf(line) ==
    [i \in 1..MAX_NUM_OPERANDS |-> IF i + 1 <= Len(line) THEN line[i + 1] ELSE NULL]

\* the word that decode emits for a line that is not a label:
\* [ok, data, addresses]
AssembleLine(line, cur, labs, addrs) ==
    LET Asm(c) == determine_and_assemble(c.opcode, c.operands, cur, labs, addrs)
    IN  Asm(convert_aliases(line[1], OperandsOf(line)))

\* a decode that emits a word without moving the emit address
decode_same_address(st, line) ==
    LET Defined(a) == [st EXCEPT !.ok = a.ok, !.labels = a.labels,
                                 !.instructions = a.instructions]
        Emitted(e) == IF ~e.ok THEN [st EXCEPT !.ok = FALSE]
                      ELSE [st EXCEPT !.instructions = Append(@, e.data),
                                      !.addresses = e.addresses]
    IN  IF is_label(line[1])
        THEN Defined(symbol_table_add_label(st.instructions, st.labels,
                         st.addresses, st.current_address,
                         CutAt(line[1], Len(line[1]) - 1)))
        ELSE Emitted(AssembleLine(line, st.current_address, st.labels,
                                  st.addresses))

\* decode: the assembler state st = [instructions, current_address, labels,
\* addresses, ok] after one line; ok = FALSE when the process was ended
decode(st, line) ==
    LET Defined(a) == [st EXCEPT !.ok = a.ok, !.labels = a.labels,
                                 !.instructions = a.instructions]
        Emitted(e) == IF ~e.ok THEN [st EXCEPT !.ok = FALSE]
                      ELSE [st EXCEPT !.instructions = Append(@, e.data),
                                      !.addresses = e.addresses,
                                      !.current_address = @ + INSTR_SIZE]
    IN  IF is_label(line[1])
        THEN Defined(symbol_table_add_label(st.instructions, st.labels,
                         st.addresses, st.current_address,
                         CutAt(line[1], Len(line[1]) - 1)))
        ELSE Emitted(AssembleLine(line, st.current_address, st.labels,
                                  st.addresses))

\* decode_init
decode_init == [instructions |-> << >>, current_address |-> 0,
                labels |-> hashmap_init, addresses |-> hashmap_init, ok |-> TRUE]

\* for_each_line_in_file(decode) over the non-empty lines of a file
RECURSIVE decode_all(_, _)
decode_all(st, lines) ==
    IF lines = << >> \/ ~st.ok THEN st
    ELSE decode_all(decode(st, Head(lines)), Tail(lines))

-----------------------------------------------------------------------------
(* assemble.c: the assembler as a state machine.  assemble() calls         *)
(* decode_init, then decode on every non-empty line of the input file,     *)
(* then writes the emitted words to the output file.  The input file is    *)
(* any sequence of at most MaxLines lines drawn from AsmLines.             *)

MaxLines == 4

tok_x0 == <<"x", "0">>
tok_x1 == <<"x", "1">>
tok_w2 == <<"w", "2">>
tok_end == <<"e", "n", "d">>
tok_top == <<"t", "o", "p">>

AsmLines == {
    << <<"b">>, tok_end >>,                                   \* b end
    << <<"b", ".", "n", "e">>, tok_end >>,                    \* b.ne end
    << <<"l", "d", "r">>, tok_x0, tok_end >>,                 \* ldr x0, end
    << <<"b">>, tok_top >>,                                   \* b top
    << <<"m", "o", "v", "z">>, tok_x0, <<"#", "5">> >>,       \* movz x0, #5
    << <<"a", "d", "d">>, tok_x0, tok_x0, tok_x1 >>,          \* add x0, x0, x1
    << <<"e", "n", "d", ":">> >>,                             \* end:
    << <<"t", "o", "p", ":">> >> }                            \* top:

\* init_cpu / init_register / init_memory: the emulator before any program
\* is loaded
init_register == [gen |-> [i \in 0..30 |-> U64(0)], pc |-> U64(0)]
pstate_all_clear == [negative_flag |-> FALSE, zero_flag |-> FALSE,
                     carry_flag |-> FALSE, overflow_flag |-> FALSE]
init_pstate == [negative_flag |-> FALSE, zero_flag |-> TRUE,
                carry_flag |-> FALSE, overflow_flag |-> FALSE]
init_memory == [a \in {} |-> 0]

CpuIdle ==
    /\ gen_registers = init_register.gen
    /\ program_counter = init_register.pc
    /\ pstate = init_pstate
    /\ mem = init_memory
    /\ cpu_pc = "off"
    /\ last = [kind |-> "none"]
    /\ nsteps = 0

AsmState == [instructions |-> instructions, current_address |-> current_address,
             labels |-> labels, addresses |-> addresses, ok |-> TRUE]

InitAsm ==
    /\ instructions = decode_init.instructions
    /\ current_address = decode_init.current_address
    /\ labels = decode_init.labels
    /\ addresses = decode_init.addresses
    /\ asm_pc = "decoding"
    /\ nlines = 0
    /\ CpuIdle
    /\ call = [op |-> "none"]

\* for_each_line_in_file: decode on the next line of the file
DecodeLine(line) ==
    /\ asm_pc = "decoding"
    /\ nlines < MaxLines
    /\ \E st \in {decode(AsmState, line)} :
           /\ instructions' = st.instructions
           /\ current_address' = st.current_address
           /\ labels' = st.labels
           /\ addresses' = st.addresses
           /\ asm_pc' = IF st.ok THEN "decoding" ELSE "fatal"
    /\ nlines' = nlines + 1
    /\ UNCHANGED <<cpu_vars, call>>

\* end of file: write_to_binary_file(output, decode_get_instructions())
WriteOutput ==
    /\ asm_pc = "decoding"
    /\ asm_pc' = "written"
    /\ UNCHANGED <<instructions, current_address, labels, addresses, nlines,
                   cpu_vars, call>>

NextAsm == (\E line \in AsmLines : DecodeLine(line)) \/ WriteOutput

SpecAsm == InitAsm /\ [][NextAsm]_vars

-----------------------------------------------------------------------------
(* Bit operations on limb sequences *)

\* bitwise operations
AndL(a, b) == FromBits([i \in 0..(16 * Len(a) - 1) |-> BitL(a, i) * BitL(b, i)], Len(a))
OrL(a, b) ==
    FromBits([i \in 0..(16 * Len(a) - 1) |-> IF BitL(a, i) + BitL(b, i) > 0 THEN 1 ELSE 0],
             Len(a))
XorL(a, b) ==
    FromBits([i \in 0..(16 * Len(a) - 1) |-> (BitL(a, i) + BitL(b, i)) % 2], Len(a))

\* a << k, a >> k (logical) and a >> k (arithmetic), for 0 <= k < 16 * Len(a)
ShlL(a, k) ==
    FromBits([i \in 0..(16 * Len(a) - 1) |-> IF i >= k THEN BitL(a, i - k) ELSE 0], Len(a))
ShrL(a, k) ==
    FromBits([i \in 0..(16 * Len(a) - 1) |->
                 IF i + k < 16 * Len(a) THEN BitL(a, i + k) ELSE 0], Len(a))
AsrL(a, k) ==
    FromBits([i \in 0..(16 * Len(a) - 1) |->
                 IF i + k < 16 * Len(a) THEN BitL(a, i + k)
                 ELSE BitL(a, 16 * Len(a) - 1)], Len(a))

\* a * b modulo 2^(16 * Len(a)): long multiplication on the bytes of a and b
MulL(a, b) ==
    LET Mul(x, y, n) ==
            LET col[k \in 1..n, i \in 0..n] ==
                    IF i = 0 THEN 0
                    ELSE col[k, i-1] + (IF i <= k THEN x[i] * y[k + 1 - i] ELSE 0)
                carry[k \in 0..n] ==
                    IF k = 0 THEN 0 ELSE (col[k, n] + carry[k-1]) \div 256
                byte(k) == (col[k, n] + carry[k-1]) % 256
            IN  [j \in 1..(n \div 2) |-> byte(2 * j - 1) + 256 * byte(2 * j)]
    IN  Mul([i \in 1..(2 * Len(a)) |-> IF i % 2 = 1 THEN a[(i + 1) \div 2] % 256
                                       ELSE a[i \div 2] \div 256],
            [i \in 1..(2 * Len(b)) |-> IF i % 2 = 1 THEN b[(i + 1) \div 2] % 256
                                       ELSE b[i \div 2] \div 256],
            2 * Len(a))

-----------------------------------------------------------------------------
(* memory.c: the memory is the function from the addresses of its non-zero *)
(* bytes to those bytes; every other byte of the 2 MiB is zero.            *)

NUM_OF_MEMORY_ADDRESS == 2097152

\* mem[a]
MemByte(m, a) == IF a \in DOMAIN m THEN m[a] ELSE 0

\* the bytes of a word or double word, most significant byte first
BytesOfBigEndian(v) ==
    [i \in 1..(2 * Len(v)) |->
        IF i % 2 = 1 THEN v[Len(v) - ((i - 1) \div 2)] \div 256
        ELSE v[Len(v) - ((i - 1) \div 2)] % 256]

\* the bytes of a word or double word in memory order (little endian)
BytesOf(v) ==
    [i \in 1..(2 * Len(v)) |-> IF i % 2 = 1 THEN v[(i + 1) \div 2] % 256
                               ELSE v[i \div 2] \div 256]

\* memcpy(mem + a, bytes, Len(bytes))
StoreBytes(m, a, bytes) ==
    LET n == Len(bytes)
        val(x) == IF x >= a /\ x < a + n THEN bytes[x - a + 1] ELSE m[x]
    IN  [x \in {y \in DOMAIN m \cup (a..(a + n - 1)) : val(y) # 0} |-> val(x)]

\* memcpy(&data, mem + a, 2 * n): the value of n limbs at address a
LimbsAt(m, a, n) ==
    [i \in 1..n |-> MemByte(m, a + 2 * (i - 1)) + 256 * MemByte(m, a + 2 * (i - 1) + 1)]

\* a uint32_t address as an int; only used when it is within the memory
AddrOf(address) == address[1] + address[2] * LIMB

\* a bounds check of the first byte only
InBoundsFirstByte(address, size) ==
    address[2] < NUM_OF_MEMORY_ADDRESS \div LIMB

\* the bounds check of the accessors: address <= NUM_OF_MEMORY_ADDRESS - size
InBounds(address, size) ==
    address[2] < NUM_OF_MEMORY_ADDRESS \div LIMB
    /\ AddrOf(address) <= NUM_OF_MEMORY_ADDRESS - size

\* get_word / get_double_word exit when the address is out of bounds
word_ok(address) == InBounds(address, 4)
double_word_ok(address) == InBounds(address, 8)
get_word(m, address) == LimbsAt(m, AddrOf(address), 2)
get_double_word(m, address) == LimbsAt(m, AddrOf(address), 4)

\* set_word / set_double_word: the memory afterwards (address in bounds)
set_word(m, address, data) == StoreBytes(m, AddrOf(address), BytesOf(data))
set_double_word(m, address, data) == StoreBytes(m, AddrOf(address), BytesOf(data))

\* load_instructions_to_memory: the words of the file copied to address 0
load_instructions_to_memory(words) ==
    LET r[i \in 0..Len(words)] ==
            IF i = 0 THEN init_memory
            ELSE StoreBytes(r[i-1], (i - 1) * INSTR_SIZE, BytesOf(words[i]))
    IN  r[Len(words)]

-----------------------------------------------------------------------------
(* register.c.  The emulator state is the record                           *)
(* c = [gen_registers, program_counter, pstate, mem, status]; status is    *)
(* "ok", "fatal" after exit(EXIT_FAILURE), or "undefined" after an         *)
(* operation whose result the C standard leaves undefined.                 *)

NUM_REGISTERS == 31

\* a write that takes the index modulo the number of registers
set_reg_value_wrap(c, reg_num, value) ==
    [c EXCEPT !.gen_registers[reg_num % NUM_REGISTERS] = value]

set_reg_value(c, reg_num, value) ==
    IF reg_num = NUM_REGISTERS THEN c
    ELSE IF reg_num > NUM_REGISTERS THEN [c EXCEPT !.status = "fatal"]
    ELSE [c EXCEPT !.gen_registers[reg_num] = value]

\* reg_num <= NUM_REGISTERS always holds for a five-bit register field
get_reg_value_64(c, reg_num) ==
    IF reg_num >= NUM_REGISTERS THEN U64(0) ELSE c.gen_registers[reg_num]

get_reg_value_32(c, reg_num) == Trunc32(get_reg_value_64(c, reg_num))

\* an increment that leaves the program counter where it is
increment_pc_stay(c) == c

\* increase_pc(offset) for an int offset, and increment_pc
increase_pc(c, offset) ==
    [c EXCEPT !.program_counter = PlusL(@, Int64(offset))]
increment_pc(c) == [c EXCEPT !.program_counter = PlusL(@, U64(INSTR_SIZE))]

\* the field taken as an unsigned value, its sign bit not extended
sign_extend_none(bits, bit_length) == bits

\* utils.c sign_extend: the int64_t value, as an int
sign_extend(bits, bit_length) ==
    IF bits \div Pow2(bit_length - 1) = 1 THEN bits - Pow2(bit_length) ELSE bits

-----------------------------------------------------------------------------
(* cpu.c: data processing helpers *)

CONST_32 == 32
CONST_64 == 64

\* The sum or difference is computed in the signed type and converted back;
\* the build (gcc without optimisation) compiles it to the machine's
\* two's-complement add or subtract, so the result wraps modulo 2^32.
apply_arithmetic_32(c, src, operand2, dest_reg_index, opc_flag, opc_op) ==
    LET Store(cc, result) ==
            IF dest_reg_index = NUM_REGISTERS THEN cc
            ELSE set_reg_value(cc, dest_reg_index, ZExt64(result))
        Flags(result) ==
            IF opc_flag # 0
            THEN [c EXCEPT !.pstate =
                     [negative_flag |-> MsbL(result),
                      zero_flag |-> IsZeroL(result),
                      \* result is unsigned: result < 0 never holds
                      overflow_flag |-> /\ ~IsZeroL(src) /\ ~IsZeroL(operand2)
                                        /\ LtL(result, U32(0)),
                      carry_flag |-> IF opc_op # 0 THEN GeL(src, operand2)
                                     ELSE LtL(result, src) \/ LtL(result, operand2)]]
            ELSE c
        Finish(result) == Store(Flags(result), result)
    IN  Finish(IF opc_op # 0 THEN MinusL(src, operand2) ELSE PlusL(src, operand2))

apply_arithmetic_64(c, src, operand2, dest_reg_index, opc_flag, opc_op) ==
    LET Store(cc, result) ==
            IF dest_reg_index = NUM_REGISTERS THEN cc
            ELSE set_reg_value(cc, dest_reg_index, result)
        Flags(result) ==
            IF opc_flag # 0
            THEN [c EXCEPT !.pstate =
                     [negative_flag |-> MsbL(result),
                      zero_flag |-> IsZeroL(result),
                      overflow_flag |-> /\ ~IsZeroL(src) /\ ~IsZeroL(operand2)
                                        /\ LtL(result, U64(0)),
                      carry_flag |-> IF opc_op # 0 THEN GeL(src, operand2)
                                     ELSE LtL(result, src) \/ LtL(result, operand2)]]
            ELSE c
        Finish(result) == Store(Flags(result), result)
    IN  Finish(IF opc_op # 0 THEN MinusL(src, operand2) ELSE PlusL(src, operand2))

\* A shift by the operand's width or more is undefined in C; so is the
\* operand << (width - 0) of a rotation by zero.
shift_defined(width, shift, shift_option) ==
    /\ shift < width
    /\ shift_option = ITP_ROR => shift > 0

apply_shift_32(operand, shift, shift_option) ==
    CASE shift_option = ITP_LSL -> ShlL(operand, shift)
      [] shift_option = ITP_LSR -> ShrL(operand, shift)
      [] shift_option = ITP_ASR -> AsrL(operand, shift)
      [] shift_option = ITP_ROR ->
             OrL(ShrL(operand, shift), ShlL(operand, CONST_32 - shift))
      [] OTHER -> operand

apply_shift_64(operand, shift, shift_option) ==
    CASE shift_option = ITP_LSL -> ShlL(operand, shift)
      [] shift_option = ITP_LSR -> ShrL(operand, shift)
      [] shift_option = ITP_ASR -> AsrL(operand, shift)
      [] shift_option = ITP_ROR ->
             OrL(ShrL(operand, shift), ShlL(operand, CONST_64 - shift))
      [] OTHER -> operand

apply_logic(src, operand2, opc, N) ==
    LET Op(o2) ==
            CASE opc = ITP_AND \/ opc = ITP_AND_W_FLAGS -> AndL(src, o2)
              [] opc = ITP_OR -> OrL(src, o2)
              [] opc = ITP_XOR -> XorL(src, o2)
    IN  Op(IF N # 0 THEN NotL(operand2) ELSE operand2)

-----------------------------------------------------------------------------
(* cpu.c: the executors.  inst is the instruction word, read through the   *)
(* struct of the executor's parameter type.                                *)

Undefined(c) == [c EXCEPT !.status = "undefined"]
Fatal(c) == [c EXCEPT !.status = "fatal"]

exec_imm_arithmetic(c, inst) ==
    LET Run(sf, rd, rn, operand2, opc_flag, opc_op) ==
            IF sf # 0
            THEN apply_arithmetic_64(c, get_reg_value_64(c, rn), ZExt64(operand2),
                                     rd, opc_flag, opc_op)
            ELSE apply_arithmetic_32(c, get_reg_value_32(c, rn), operand2,
                                     rd, opc_flag, opc_op)
        Operand2(imm12, sh) == U32(IF sh # 0 THEN imm12 * 4096 ELSE imm12)
    IN  Run(Get(inst, "ImmArith", "sf"), Get(inst, "ImmArith", "rd"),
            Get(inst, "ImmArith", "rn"),
            Operand2(Get(inst, "ImmArith", "imm12"), Get(inst, "ImmArith", "sh")),
            Get(inst, "ImmArith", "opc_flag"), Get(inst, "ImmArith", "opc_op"))

\* the 64-bit value with imm16 in its 16-bit field number hw
WideImm(imm16, hw) == [i \in 1..4 |-> IF i = hw + 1 THEN imm16 ELSE 0]

exec_wide_move(c, inst) ==
    LET Low(sf, v) == IF sf = 0 THEN ZExt64(Trunc32(v)) ELSE v
        Keep(rd, sf, imm16, hw) ==
            set_reg_value(c, rd,
                Low(sf, [i \in 1..4 |-> IF i = hw + 1 THEN imm16
                                        ELSE get_reg_value_64(c, rd)[i]]))
        Move(rd, sf, opc, operand) ==
            set_reg_value(c, rd,
                Low(sf, IF opc = ITP_MOVN THEN NotL(operand) ELSE operand))
        Run(sf, opc, rd, imm16, hw) ==
            IF opc = ITP_MOVK THEN Keep(rd, sf, imm16, hw)
            ELSE Move(rd, sf, opc, WideImm(imm16, hw))
    IN  Run(Get(inst, "ImmWide", "sf"), Get(inst, "ImmWide", "opc"),
            Get(inst, "ImmWide", "rd"), Get(inst, "ImmWide", "imm16"),
            Get(inst, "ImmWide", "hw"))

exec_reg_arithmetic(c, inst) ==
    LET Run(sf, rd, rn, rm, operand, shift, opc_flag, opc_op) ==
            IF sf # 0
            THEN IF ~shift_defined(CONST_64, operand, shift) THEN Undefined(c)
                 ELSE apply_arithmetic_64(c, get_reg_value_64(c, rn),
                          apply_shift_64(get_reg_value_64(c, rm), operand, shift),
                          rd, opc_flag, opc_op)
            ELSE IF ~shift_defined(CONST_32, operand, shift) THEN Undefined(c)
                 ELSE apply_arithmetic_32(c, get_reg_value_32(c, rn),
                          apply_shift_32(get_reg_value_32(c, rm), operand, shift),
                          rd, opc_flag, opc_op)
    IN  Run(Get(inst, "RegArith", "sf"), Get(inst, "RegArith", "rd"),
            Get(inst, "RegArith", "rn"), Get(inst, "RegArith", "rm"),
            Get(inst, "RegArith", "operand"), Get(inst, "RegArith", "shift"),
            Get(inst, "RegArith", "opc_flag"), Get(inst, "RegArith", "opc_op"))

\* a logic executor whose and and bic write the flags as ands and bics do
exec_reg_logic_flags(c, inst) ==
    LET Flags(opc, result) ==
            IF opc = ITP_AND_W_FLAGS \/ opc = ITP_AND
            THEN [c EXCEPT !.pstate =
                     [negative_flag |-> MsbL(result), zero_flag |-> IsZeroL(result),
                      overflow_flag |-> FALSE, carry_flag |-> FALSE]]
            ELSE c
        Finish(opc, rd, result) ==
            set_reg_value(Flags(opc, result), rd, ZExt64(result))
        Run(sf, rd, rn, rm, operand, shift, opc, N) ==
            IF sf # 0
            THEN IF ~shift_defined(CONST_64, operand, shift) THEN Undefined(c)
                 ELSE Finish(opc, rd,
                          apply_logic(get_reg_value_64(c, rn),
                              apply_shift_64(get_reg_value_64(c, rm), operand, shift),
                              opc, N))
            ELSE IF ~shift_defined(CONST_32, operand, shift) THEN Undefined(c)
                 ELSE Finish(opc, rd,
                          Trunc32(apply_logic(ZExt64(get_reg_value_32(c, rn)),
                              ZExt64(apply_shift_32(get_reg_value_32(c, rm),
                                                    operand, shift)),
                              opc, N)))
    IN  Run(Get(inst, "RegLogic", "sf"), Get(inst, "RegLogic", "rd"),
            Get(inst, "RegLogic", "rn"), Get(inst, "RegLogic", "rm"),
            Get(inst, "RegLogic", "operand"), Get(inst, "RegLogic", "shift"),
            Get(inst, "RegLogic", "opc"), Get(inst, "RegLogic", "N"))

exec_reg_logic(c, inst) ==
    LET Flags(opc, result) ==
            IF opc = ITP_AND_W_FLAGS
            THEN [c EXCEPT !.pstate =
                     [negative_flag |-> MsbL(result), zero_flag |-> IsZeroL(result),
                      overflow_flag |-> FALSE, carry_flag |-> FALSE]]
            ELSE c
        Finish(opc, rd, result) ==
            set_reg_value(Flags(opc, result), rd, ZExt64(result))
        Run(sf, rd, rn, rm, operand, shift, opc, N) ==
            IF sf # 0
            THEN IF ~shift_defined(CONST_64, operand, shift) THEN Undefined(c)
                 ELSE Finish(opc, rd,
                          apply_logic(get_reg_value_64(c, rn),
                              apply_shift_64(get_reg_value_64(c, rm), operand, shift),
                              opc, N))
            ELSE IF ~shift_defined(CONST_32, operand, shift) THEN Undefined(c)
                 ELSE Finish(opc, rd,
                          Trunc32(apply_logic(ZExt64(get_reg_value_32(c, rn)),
                              ZExt64(apply_shift_32(get_reg_value_32(c, rm),
                                                    operand, shift)),
                              opc, N)))
    IN  Run(Get(inst, "RegLogic", "sf"), Get(inst, "RegLogic", "rd"),
            Get(inst, "RegLogic", "rn"), Get(inst, "RegLogic", "rm"),
            Get(inst, "RegLogic", "operand"), Get(inst, "RegLogic", "shift"),
            Get(inst, "RegLogic", "opc"), Get(inst, "RegLogic", "N"))

\* a multiply executor that adds the product whatever x is
exec_reg_multiply_add(c, inst) ==
    LET Acc(x, ra_val, product) ==
            PlusL(ra_val, product)
        Run(sf, rd, rn, rm, ra, x) ==
            IF sf # 0
            THEN set_reg_value(c, rd,
                     Acc(x, get_reg_value_64(c, ra),
                         MulL(get_reg_value_64(c, rn), get_reg_value_64(c, rm))))
            ELSE set_reg_value(c, rd,
                     ZExt64(Acc(x, get_reg_value_32(c, ra),
                         MulL(get_reg_value_32(c, rn), get_reg_value_32(c, rm)))))
    IN  Run(Get(inst, "RegMultiply", "sf"), Get(inst, "RegMultiply", "rd"),
            Get(inst, "RegMultiply", "rn"), Get(inst, "RegMultiply", "rm"),
            Get(inst, "RegMultiply", "ra"), Get(inst, "RegMultiply", "x"))

\* inst.ra is a five-bit field and never equals 32: ra is always read, and
\* register 31 reads as zero
exec_reg_multiply(c, inst) ==
    LET Acc(x, ra_val, product) ==
            IF x # 0 THEN MinusL(ra_val, product) ELSE PlusL(ra_val, product)
        Run(sf, rd, rn, rm, ra, x) ==
            IF sf # 0
            THEN set_reg_value(c, rd,
                     Acc(x, get_reg_value_64(c, ra),
                         MulL(get_reg_value_64(c, rn), get_reg_value_64(c, rm))))
            ELSE set_reg_value(c, rd,
                     ZExt64(Acc(x, get_reg_value_32(c, ra),
                         MulL(get_reg_value_32(c, rn), get_reg_value_32(c, rm)))))
    IN  Run(Get(inst, "RegMultiply", "sf"), Get(inst, "RegMultiply", "rd"),
            Get(inst, "RegMultiply", "rn"), Get(inst, "RegMultiply", "rm"),
            Get(inst, "RegMultiply", "ra"), Get(inst, "RegMultiply", "x"))

\* set_reg_value(rt, get_double_word(address)) and the other three register
\* to memory transfers; the accessor exits when the address is out of bounds
LoadDoubleWord(c, rt, address) ==
    IF ~double_word_ok(address) THEN Fatal(c)
    ELSE set_reg_value(c, rt, get_double_word(c.mem, address))
\* a load that writes the low half of rt and keeps its high half
LoadWordLow(c, rt, address) ==
    IF ~word_ok(address) THEN Fatal(c)
    ELSE set_reg_value(c, rt, get_word(c.mem, address)
                                  \o SubSeq(get_reg_value_64(c, rt), 3, 4))
LoadWord(c, rt, address) ==
    IF ~word_ok(address) THEN Fatal(c)
    ELSE set_reg_value(c, rt, ZExt64(get_word(c.mem, address)))
StoreDoubleWord(c, address, data) ==
    IF ~double_word_ok(address) THEN Fatal(c)
    ELSE [c EXCEPT !.mem = set_double_word(@, address, data)]
StoreWord(c, address, data) ==
    IF ~word_ok(address) THEN Fatal(c)
    ELSE [c EXCEPT !.mem = set_word(@, address, data)]

exec_dt_imm_offset(c, inst) ==
    LET Address(xn, scaled) == Trunc32(PlusL(get_reg_value_64(c, xn), U64(scaled)))
        Run(sf, L, rt, xn, imm12) ==
            IF sf # 0
            THEN IF L # 0 THEN LoadDoubleWord(c, rt, Address(xn, imm12 * 8))
                 ELSE StoreDoubleWord(c, Address(xn, imm12 * 8),
                                      get_reg_value_64(c, rt))
            ELSE IF L # 0 THEN LoadWord(c, rt, Address(xn, imm12 * 4))
                 ELSE StoreWord(c, Address(xn, imm12 * 4), get_reg_value_32(c, rt))
    IN  Run(Get(inst, "DTImmOffset", "sf"), Get(inst, "DTImmOffset", "L"),
            Get(inst, "DTImmOffset", "rt"), Get(inst, "DTImmOffset", "xn"),
            Get(inst, "DTImmOffset", "imm12"))

exec_dt_reg_offset(c, inst) ==
    LET Run(sf, L, rt, address) ==
            IF sf # 0
            THEN IF L # 0 THEN LoadDoubleWord(c, rt, address)
                 ELSE StoreDoubleWord(c, address, get_reg_value_64(c, rt))
            ELSE IF L # 0 THEN LoadWord(c, rt, address)
                 ELSE StoreWord(c, address, get_reg_value_32(c, rt))
        Address(xn, xm) ==
            Trunc32(PlusL(get_reg_value_64(c, xn), get_reg_value_64(c, xm)))
    IN  Run(Get(inst, "DTRegOffset", "sf"), Get(inst, "DTRegOffset", "L"),
            Get(inst, "DTRegOffset", "rt"),
            Address(Get(inst, "DTRegOffset", "xn"), Get(inst, "DTRegOffset", "xm")))

exec_dt_load_literal(c, inst) ==
    LET Run(sf, rt, address) ==
            IF sf # 0 THEN LoadDoubleWord(c, rt, address)
            ELSE LoadWord(c, rt, address)
        Address(simm19) ==
            Trunc32(PlusL(c.program_counter, Int64(sign_extend(simm19, 19) * 4)))
    IN  Run(Get(inst, "DTLoadLiteral", "sf"), Get(inst, "DTLoadLiteral", "rt"),
            Address(Get(inst, "DTLoadLiteral", "simm19")))

exec_dt_pre_index(c, inst) ==
    LET Transfer(c1, sf, L, rt, new_address) ==
            IF sf # 0
            THEN IF L # 0 THEN LoadDoubleWord(c1, rt, new_address)
                 ELSE StoreDoubleWord(c1, new_address, get_reg_value_64(c1, rt))
            ELSE IF L # 0 THEN LoadWord(c1, rt, new_address)
                 ELSE StoreWord(c1, new_address, get_reg_value_32(c1, rt))
        Run(sf, L, rt, xn, new_address) ==
            Transfer(set_reg_value(c, xn, ZExt64(new_address)), sf, L, rt, new_address)
        Address(xn, simm9) ==
            Trunc32(PlusL(get_reg_value_64(c, xn), Int64(sign_extend(simm9, 9))))
    IN  Run(Get(inst, "DTPrePostIndex", "sf"), Get(inst, "DTPrePostIndex", "L"),
            Get(inst, "DTPrePostIndex", "rt"), Get(inst, "DTPrePostIndex", "xn"),
            Address(Get(inst, "DTPrePostIndex", "xn"),
                    Get(inst, "DTPrePostIndex", "simm9")))

\* in 32-bit mode the store is set_double_word(address, get_reg_value_64(rt))
exec_dt_post_index(c, inst) ==
    LET Post(c1, xn, address, simm9) ==
            IF c1.status # "ok" THEN c1
            ELSE set_reg_value(c1, xn,
                     PlusL(ZExt64(address), Int64(sign_extend(simm9, 9))))
        Transfer(sf, L, rt, address) ==
            IF sf # 0
            THEN IF L # 0 THEN LoadDoubleWord(c, rt, address)
                 ELSE StoreDoubleWord(c, address, get_reg_value_64(c, rt))
            ELSE IF L # 0 THEN LoadWord(c, rt, address)
                 ELSE StoreDoubleWord(c, address, get_reg_value_64(c, rt))
        Run(sf, L, rt, xn, address, simm9) ==
            Post(Transfer(sf, L, rt, address), xn, address, simm9)
        Address(xn) == Trunc32(get_reg_value_64(c, xn))
    IN  Run(Get(inst, "DTPrePostIndex", "sf"), Get(inst, "DTPrePostIndex", "L"),
            Get(inst, "DTPrePostIndex", "rt"), Get(inst, "DTPrePostIndex", "xn"),
            Address(Get(inst, "DTPrePostIndex", "xn")),
            Get(inst, "DTPrePostIndex", "simm9"))

exec_branch_uncond(c, inst) ==
    increase_pc(c, sign_extend(Get(inst, "BranchUncond", "simm26"), 26) * INSTR_SIZE)

\* a b.cond whose LE forgets the zero flag
exec_branch_cond_le(c, inst) ==
    LET condition(cond) ==
            CASE cond = ITP_EQ -> c.pstate.zero_flag
              [] cond = ITP_NE -> ~c.pstate.zero_flag
              [] cond = ITP_GE -> c.pstate.negative_flag = c.pstate.overflow_flag
              [] cond = ITP_LT -> c.pstate.negative_flag # c.pstate.overflow_flag
              [] cond = ITP_GT -> /\ ~c.pstate.zero_flag
                                  /\ c.pstate.negative_flag = c.pstate.overflow_flag
              [] cond = ITP_LE -> c.pstate.negative_flag # c.pstate.overflow_flag
              [] cond = ITP_AL -> TRUE
              [] OTHER -> FALSE
        Run(cond, offset) ==
            IF condition(cond) THEN increase_pc(c, offset) ELSE increment_pc(c)
    IN  Run(Get(inst, "BranchCond", "cond"),
            sign_extend(Get(inst, "BranchCond", "simm19"), 19) * INSTR_SIZE)

exec_branch_cond(c, inst) ==
    LET condition(cond) ==
            CASE cond = ITP_EQ -> c.pstate.zero_flag
              [] cond = ITP_NE -> ~c.pstate.zero_flag
              [] cond = ITP_GE -> c.pstate.negative_flag = c.pstate.overflow_flag
              [] cond = ITP_LT -> c.pstate.negative_flag # c.pstate.overflow_flag
              [] cond = ITP_GT -> /\ ~c.pstate.zero_flag
                                  /\ c.pstate.negative_flag = c.pstate.overflow_flag
              [] cond = ITP_LE -> ~(/\ ~c.pstate.zero_flag
                                    /\ c.pstate.negative_flag = c.pstate.overflow_flag)
              [] cond = ITP_AL -> TRUE
              [] OTHER -> FALSE
        Run(cond, offset) ==
            IF condition(cond) THEN increase_pc(c, offset) ELSE increment_pc(c)
    IN  Run(Get(inst, "BranchCond", "cond"),
            sign_extend(Get(inst, "BranchCond", "simm19"), 19) * INSTR_SIZE)

exec_branch_reg(c, inst) ==
    [c EXCEPT !.program_counter = get_reg_value_64(c, Get(inst, "BranchReg", "xn"))]

\* the executor decode_and_execute hands the word to ("unknown": none, the
\* emulator exits)
executor_of(inst) ==
    IF Get(inst, "GeneralBranch", "op0") = ITP_BRANCH
    THEN IF Get(inst, "BranchUncond", "id") = ITP_BRANCH_UNCOND
         THEN "exec_branch_uncond"
         ELSE IF Get(inst, "BranchCond", "id") = ITP_BRANCH_COND
         THEN "exec_branch_cond"
         ELSE "exec_branch_reg"
    ELSE IF /\ Get(inst, "GeneralDpImm", "op0") = ITP_DP_IMM
            /\ Get(inst, "ImmArith", "opi") = ITP_IMM_ARITH
    THEN "exec_imm_arithmetic"
    ELSE IF /\ Get(inst, "GeneralDpImm", "op0") = ITP_DP_IMM
            /\ Get(inst, "ImmWide", "opi") = ITP_WIDE_MOVE
    THEN "exec_wide_move"
    ELSE IF Get(inst, "GeneralDpReg", "op0") = ITP_DP_REG
    THEN IF Get(inst, "RegMultiply", "M") = ITP_REG_MULTIPLY
         THEN "exec_reg_multiply"
         ELSE IF Get(inst, "RegArith", "id") = ITP_REG_ARITH
         THEN "exec_reg_arithmetic"
         ELSE "exec_reg_logic"
    ELSE IF /\ Get(inst, "GeneralDT", "op0_1") = ITP_DT_1
            /\ Get(inst, "GeneralDT", "op0_2") = ITP_DT_2
    THEN IF Get(inst, "DTLoadLiteral", "id") = ITP_DT_LOAD_LITERAL
         THEN "exec_dt_load_literal"
         ELSE IF Get(inst, "DTImmOffset", "U") = ITP_DT_IMM_OFFSET
         THEN "exec_dt_imm_offset"
         ELSE IF Get(inst, "DTRegOffset", "id2") = ITP_DT_REGISTER_OFFSET
         THEN "exec_dt_reg_offset"
         ELSE IF Get(inst, "DTPrePostIndex", "I") = ITP_DT_PRE_INDEX
         THEN "exec_dt_pre_index"
         ELSE "exec_dt_post_index"
    ELSE "unknown"

decode_and_execute(c, inst) ==
    LET Run(executor) ==
            CASE executor = "exec_branch_uncond" -> exec_branch_uncond(c, inst)
              [] executor = "exec_branch_cond" -> exec_branch_cond(c, inst)
              [] executor = "exec_branch_reg" -> exec_branch_reg(c, inst)
              [] executor = "exec_imm_arithmetic" -> exec_imm_arithmetic(c, inst)
              [] executor = "exec_wide_move" -> exec_wide_move(c, inst)
              [] executor = "exec_reg_multiply" -> exec_reg_multiply(c, inst)
              [] executor = "exec_reg_arithmetic" -> exec_reg_arithmetic(c, inst)
              [] executor = "exec_reg_logic" -> exec_reg_logic(c, inst)
              [] executor = "exec_dt_load_literal" -> exec_dt_load_literal(c, inst)
              [] executor = "exec_dt_imm_offset" -> exec_dt_imm_offset(c, inst)
              [] executor = "exec_dt_reg_offset" -> exec_dt_reg_offset(c, inst)
              [] executor = "exec_dt_pre_index" -> exec_dt_pre_index(c, inst)
              [] executor = "exec_dt_post_index" -> exec_dt_post_index(c, inst)
              [] OTHER -> Fatal(c)
    IN  Run(executor_of(inst))

\* fetch reads the word at the (truncated) program counter
fetch_ok(c) == word_ok(Trunc32(c.program_counter))
fetch(c) == get_word(c.mem, Trunc32(c.program_counter))

\* the increment made after every instruction, branches included
AdvancePcAlways(c, inst) == increment_pc(c)

\* the increment at the end of the body of run_cpu's loop
AdvancePc(c, inst) ==
    IF Get(inst, "GeneralBranch", "op0") # ITP_BRANCH THEN increment_pc(c) ELSE c

\* one iteration of run_cpu's loop on the fetched word inst # HALT_INSTRUCTION
run_cpu_body(c, inst) ==
    LET After(c1) == IF c1.status # "ok" THEN c1 ELSE AdvancePc(c1, inst)
    IN  After(decode_and_execute(c, inst))

-----------------------------------------------------------------------------
(* The emulator state as a record, and the assembler when it is not used *)

CpuRec == [gen_registers |-> gen_registers, program_counter |-> program_counter,
           pstate |-> pstate, mem |-> mem, status |-> "ok"]

AsmIdle ==
    /\ instructions = decode_init.instructions
    /\ current_address = decode_init.current_address
    /\ labels = decode_init.labels
    /\ addresses = decode_init.addresses
    /\ asm_pc = "off"
    /\ nlines = 0

-----------------------------------------------------------------------------
(* SpecArith: apply_arithmetic_32 / apply_arithmetic_64 called on operands  *)
(* around the boundaries of the unsigned and the signed range               *)

ArithValues32 ==
    {U32(0), U32(1), Hex32(32767, 65535), Hex32(32768, 0), Hex32(32768, 1),
     Hex32(65535, 65535)}

ArithValues64 ==
    {U64(0), U64(1), Hex64(32767, 65535, 65535, 65535), Hex64(32768, 0, 0, 0),
     Hex64(32768, 0, 0, 1), Hex64(65535, 65535, 65535, 65535)}

ArithCalls ==
    [op : {"input"}, sf : {0}, src : ArithValues32, operand2 : ArithValues32,
     dest_reg_index : {2, NUM_REGISTERS}, opc_flag : {0, 1}, opc_op : {0, 1}]
    \cup
    [op : {"input"}, sf : {1}, src : ArithValues64, operand2 : ArithValues64,
     dest_reg_index : {2, NUM_REGISTERS}, opc_flag : {0, 1}, opc_op : {0, 1}]

InitArith ==
    /\ AsmIdle
    /\ CpuIdle
    /\ call \in ArithCalls

ApplyArithmetic ==
    /\ call.op = "input"
    /\ \E c \in {IF call.sf = 1
                 THEN apply_arithmetic_64(CpuRec, call.src, call.operand2,
                          call.dest_reg_index, call.opc_flag, call.opc_op)
                 ELSE apply_arithmetic_32(CpuRec, call.src, call.operand2,
                          call.dest_reg_index, call.opc_flag, call.opc_op)} :
           /\ gen_registers' = c.gen_registers
           /\ pstate' = c.pstate
    /\ call' = [call EXCEPT !.op = "done"]
    /\ UNCHANGED <<asm_vars, program_counter, mem, cpu_pc, last, nsteps>>

NextArith == ApplyArithmetic

SpecArith == InitArith /\ [][NextArith]_vars

-----------------------------------------------------------------------------
(* SpecCpu: the emulator run on the output of the assembler.  A program is *)
(* up to MaxProgLen lines of CpuLines followed by the halt instruction;    *)
(* init_cpu loads its image, then run_cpu iterates.                        *)

MaxProgLen == 2
MaxSteps == 4

CpuLines == {
    \* movz x0, #5
    << <<"m", "o", "v", "z">>, <<"x", "0">>, <<"#", "5">> >>,
    \* movn x0, #0
    << <<"m", "o", "v", "n">>, <<"x", "0">>, <<"#", "0">> >>,
    \* subs x2, x1, #1
    << <<"s", "u", "b", "s">>, <<"x", "2">>, <<"x", "1">>, <<"#", "1">> >>,
    \* b end
    << <<"b">>, <<"e", "n", "d">> >>,
    \* end:
    << <<"e", "n", "d", ":">> >>,
    \* top:
    << <<"t", "o", "p", ":">> >>,
    \* b top
    << <<"b">>, <<"t", "o", "p">> >>,
    \* b.eq end
    << <<"b", ".", "e", "q">>, <<"e", "n", "d">> >>,
    \* b.ne end
    << <<"b", ".", "n", "e">>, <<"e", "n", "d">> >>,
    \* br x0
    << <<"b", "r">>, <<"x", "0">> >>,
    \* str w0, [x1], #8
    << <<"s", "t", "r">>, <<"w", "0">>, <<"[", "x", "1", "]">>, <<"#", "8">> >>,
    \* str x0, [x1], #8
    << <<"s", "t", "r">>, <<"x", "0">>, <<"[", "x", "1", "]">>, <<"#", "8">> >>,
    \* str w0, [x1, #16]
    << <<"s", "t", "r">>, <<"w", "0">>, <<"[", "x", "1">>, <<"#", "1", "6", "]">> >>,
    \* str x0, [x1, #16]
    << <<"s", "t", "r">>, <<"x", "0">>, <<"[", "x", "1">>, <<"#", "1", "6", "]">> >>,
    \* str w0, [x1, #16]!
    << <<"s", "t", "r">>, <<"w", "0">>, <<"[", "x", "1">>, <<"#", "1", "6", "]", "!">> >>,
    \* str x0, [x1, #16]!
    << <<"s", "t", "r">>, <<"x", "0">>, <<"[", "x", "1">>, <<"#", "1", "6", "]", "!">> >>,
    \* str w0, [x1, x2]
    << <<"s", "t", "r">>, <<"w", "0">>, <<"[", "x", "1">>, <<"x", "2", "]">> >>,
    \* str x0, [x1, x2]
    << <<"s", "t", "r">>, <<"x", "0">>, <<"[", "x", "1">>, <<"x", "2", "]">> >>,
    \* ldr x3, [x1]
    << <<"l", "d", "r">>, <<"x", "3">>, <<"[", "x", "1", "]">> >> }

\* and x0, x0, x0 assembles to HALT_INSTRUCTION
HaltLine == << <<"a", "n", "d">>, <<"x", "0">>, <<"x", "0">>, <<"x", "0">> >>

Programs == UNION {[1..n -> CpuLines] : n \in 0..MaxProgLen}

\* what the run has executed so far
NoneExecuted == [flagged |-> FALSE, branched |-> FALSE, plain |-> FALSE]

\* main of assemble.c on a program, then init_cpu on the file it wrote
InitCpu ==
    \E prog \in Programs :
        \E st \in {decode_all(decode_init, prog \o <<HaltLine>>)} :
            /\ st.ok
            /\ instructions = st.instructions
            /\ current_address = st.current_address
            /\ labels = st.labels
            /\ addresses = st.addresses
            /\ asm_pc = "written"
            /\ nlines = Len(prog) + 1
            /\ gen_registers = init_register.gen
            /\ program_counter = init_register.pc
            /\ pstate = init_pstate
            /\ mem = load_instructions_to_memory(st.instructions)
            /\ cpu_pc = "running"
            /\ last = [kind |-> "none"]
            /\ nsteps = 0
            /\ call = NoneExecuted

\* an instruction that writes the flags: adds, subs, ands, bics
is_flag_setting(inst) ==
    \/ /\ executor_of(inst) = "exec_imm_arithmetic"
       /\ Get(inst, "ImmArith", "opc_flag") = 1
    \/ /\ executor_of(inst) = "exec_reg_arithmetic"
       /\ Get(inst, "RegArith", "opc_flag") = 1
    \/ /\ executor_of(inst) = "exec_reg_logic"
       /\ Get(inst, "RegLogic", "opc") = ITP_AND_W_FLAGS

is_branch(inst) == Get(inst, "GeneralBranch", "op0") = ITP_BRANCH

\* run_cpu: the fetched word is HALT_INSTRUCTION, the loop ends
Halt ==
    /\ cpu_pc = "running"
    /\ fetch_ok(CpuRec)
    /\ fetch(CpuRec) = HALT_INSTRUCTION
    /\ cpu_pc' = "halted"
    /\ last' = [kind |-> "halt", word |-> fetch(CpuRec), pc |-> program_counter]
    /\ UNCHANGED <<asm_vars, gen_registers, program_counter, pstate, mem, nsteps,
                   call>>

\* run_cpu: get_word exits, the program counter is outside the memory
FetchFault ==
    /\ cpu_pc = "running"
    /\ ~fetch_ok(CpuRec)
    /\ cpu_pc' = "fatal"
    /\ last' = [kind |-> "fault", word |-> U32(0), pc |-> program_counter]
    /\ UNCHANGED <<asm_vars, gen_registers, program_counter, pstate, mem, nsteps,
                   call>>

\* run_cpu: one iteration of the loop on a word that is not HALT_INSTRUCTION
ExecuteWord(inst) ==
    /\ inst # HALT_INSTRUCTION
    /\ \E c \in {run_cpu_body(CpuRec, inst)} :
           /\ gen_registers' = c.gen_registers
           /\ program_counter' = c.program_counter
           /\ pstate' = c.pstate
           /\ mem' = c.mem
           /\ cpu_pc' = IF c.status = "ok" THEN "running" ELSE c.status
    /\ last' = [kind |-> "exec", word |-> inst, pc |-> program_counter]
    /\ nsteps' = nsteps + 1
    /\ call' = [flagged |-> call.flagged \/ is_flag_setting(inst),
                branched |-> call.branched \/ is_branch(inst),
                plain |-> call.plain \/ ~is_branch(inst)]
    /\ UNCHANGED asm_vars

Execute ==
    /\ cpu_pc = "running"
    /\ nsteps < MaxSteps
    /\ fetch_ok(CpuRec)
    /\ ExecuteWord(fetch(CpuRec))

NextCpu == Halt \/ FetchFault \/ Execute

SpecCpu == InitCpu /\ [][NextCpu]_vars

-----------------------------------------------------------------------------
(* SpecEnc: one line is assembled after a short prologue, and the word it  *)
(* gives is handed to decode_and_execute.  EncCases lists instruction      *)
(* lines with the executor and the field values that the text of the line  *)
(* stands for; AliasPairs lists alias lines with their canonical form.     *)

EncCases == {
    \* add x1, x2, #5
    [line |-> << <<"a", "d", "d">>, <<"x", "1">>, <<"x", "2">>, <<"#", "5">> >>,
     executor |-> "exec_imm_arithmetic", struct |-> "ImmArith",
     fields |-> << <<"sf", 1>>, <<"rd", 1>>, <<"rn", 2>>, <<"imm12", 5>>, <<"sh", 0>>, <<"opc_flag", 0>>, <<"opc_op", 0>> >>],
    \* adds w3, w4, #0x10, lsl #12
    [line |-> << <<"a", "d", "d", "s">>, <<"w", "3">>, <<"w", "4">>, <<"#", "0", "x", "1", "0">>, <<"l", "s", "l">>, <<"#", "1", "2">> >>,
     executor |-> "exec_imm_arithmetic", struct |-> "ImmArith",
     fields |-> << <<"sf", 0>>, <<"rd", 3>>, <<"rn", 4>>, <<"imm12", 16>>, <<"sh", 1>>, <<"opc_flag", 1>>, <<"opc_op", 0>> >>],
    \* sub x5, x6, #4095
    [line |-> << <<"s", "u", "b">>, <<"x", "5">>, <<"x", "6">>, <<"#", "4", "0", "9", "5">> >>,
     executor |-> "exec_imm_arithmetic", struct |-> "ImmArith",
     fields |-> << <<"sf", 1>>, <<"rd", 5>>, <<"rn", 6>>, <<"imm12", 4095>>, <<"sh", 0>>, <<"opc_flag", 0>>, <<"opc_op", 1>> >>],
    \* subs w7, w8, #1, lsl #0
    [line |-> << <<"s", "u", "b", "s">>, <<"w", "7">>, <<"w", "8">>, <<"#", "1">>, <<"l", "s", "l">>, <<"#", "0">> >>,
     executor |-> "exec_imm_arithmetic", struct |-> "ImmArith",
     fields |-> << <<"sf", 0>>, <<"rd", 7>>, <<"rn", 8>>, <<"imm12", 1>>, <<"sh", 0>>, <<"opc_flag", 1>>, <<"opc_op", 1>> >>],
    \* add x1, x2, x3
    [line |-> << <<"a", "d", "d">>, <<"x", "1">>, <<"x", "2">>, <<"x", "3">> >>,
     executor |-> "exec_reg_arithmetic", struct |-> "RegArith",
     fields |-> << <<"sf", 1>>, <<"rd", 1>>, <<"rn", 2>>, <<"rm", 3>>, <<"operand", 0>>, <<"shift", 0>>, <<"opc_flag", 0>>, <<"opc_op", 0>> >>],
    \* adds x1, x2, x3, lsl #3
    [line |-> << <<"a", "d", "d", "s">>, <<"x", "1">>, <<"x", "2">>, <<"x", "3">>, <<"l", "s", "l">>, <<"#", "3">> >>,
     executor |-> "exec_reg_arithmetic", struct |-> "RegArith",
     fields |-> << <<"sf", 1>>, <<"rd", 1>>, <<"rn", 2>>, <<"rm", 3>>, <<"operand", 3>>, <<"shift", 0>>, <<"opc_flag", 1>>, <<"opc_op", 0>> >>],
    \* sub w1, w2, w3, lsr #4
    [line |-> << <<"s", "u", "b">>, <<"w", "1">>, <<"w", "2">>, <<"w", "3">>, <<"l", "s", "r">>, <<"#", "4">> >>,
     executor |-> "exec_reg_arithmetic", struct |-> "RegArith",
     fields |-> << <<"sf", 0>>, <<"rd", 1>>, <<"rn", 2>>, <<"rm", 3>>, <<"operand", 4>>, <<"shift", 1>>, <<"opc_flag", 0>>, <<"opc_op", 1>> >>],
    \* subs x9, x10, x11, asr #63
    [line |-> << <<"s", "u", "b", "s">>, <<"x", "9">>, <<"x", "1", "0">>, <<"x", "1", "1">>, <<"a", "s", "r">>, <<"#", "6", "3">> >>,
     executor |-> "exec_reg_arithmetic", struct |-> "RegArith",
     fields |-> << <<"sf", 1>>, <<"rd", 9>>, <<"rn", 10>>, <<"rm", 11>>, <<"operand", 63>>, <<"shift", 2>>, <<"opc_flag", 1>>, <<"opc_op", 1>> >>],
    \* and x1, x2, x3
    [line |-> << <<"a", "n", "d">>, <<"x", "1">>, <<"x", "2">>, <<"x", "3">> >>,
     executor |-> "exec_reg_logic", struct |-> "RegLogic",
     fields |-> << <<"sf", 1>>, <<"rd", 1>>, <<"rn", 2>>, <<"rm", 3>>, <<"operand", 0>>, <<"shift", 0>>, <<"opc", 0>>, <<"N", 0>> >>],
    \* bic w1, w2, w3, ror #5
    [line |-> << <<"b", "i", "c">>, <<"w", "1">>, <<"w", "2">>, <<"w", "3">>, <<"r", "o", "r">>, <<"#", "5">> >>,
     executor |-> "exec_reg_logic", struct |-> "RegLogic",
     fields |-> << <<"sf", 0>>, <<"rd", 1>>, <<"rn", 2>>, <<"rm", 3>>, <<"operand", 5>>, <<"shift", 3>>, <<"opc", 0>>, <<"N", 1>> >>],
    \* orr x4, x5, x6, lsl #1
    [line |-> << <<"o", "r", "r">>, <<"x", "4">>, <<"x", "5">>, <<"x", "6">>, <<"l", "s", "l">>, <<"#", "1">> >>,
     executor |-> "exec_reg_logic", struct |-> "RegLogic",
     fields |-> << <<"sf", 1>>, <<"rd", 4>>, <<"rn", 5>>, <<"rm", 6>>, <<"operand", 1>>, <<"shift", 0>>, <<"opc", 1>>, <<"N", 0>> >>],
    \* orn w4, w5, w6
    [line |-> << <<"o", "r", "n">>, <<"w", "4">>, <<"w", "5">>, <<"w", "6">> >>,
     executor |-> "exec_reg_logic", struct |-> "RegLogic",
     fields |-> << <<"sf", 0>>, <<"rd", 4>>, <<"rn", 5>>, <<"rm", 6>>, <<"operand", 0>>, <<"shift", 0>>, <<"opc", 1>>, <<"N", 1>> >>],
    \* eor x7, x8, x9, lsr #2
    [line |-> << <<"e", "o", "r">>, <<"x", "7">>, <<"x", "8">>, <<"x", "9">>, <<"l", "s", "r">>, <<"#", "2">> >>,
     executor |-> "exec_reg_logic", struct |-> "RegLogic",
     fields |-> << <<"sf", 1>>, <<"rd", 7>>, <<"rn", 8>>, <<"rm", 9>>, <<"operand", 2>>, <<"shift", 1>>, <<"opc", 2>>, <<"N", 0>> >>],
    \* eon x7, x8, x9
    [line |-> << <<"e", "o", "n">>, <<"x", "7">>, <<"x", "8">>, <<"x", "9">> >>,
     executor |-> "exec_reg_logic", struct |-> "RegLogic",
     fields |-> << <<"sf", 1>>, <<"rd", 7>>, <<"rn", 8>>, <<"rm", 9>>, <<"operand", 0>>, <<"shift", 0>>, <<"opc", 2>>, <<"N", 1>> >>],
    \* ands w10, w11, w12, asr #31
    [line |-> << <<"a", "n", "d", "s">>, <<"w", "1", "0">>, <<"w", "1", "1">>, <<"w", "1", "2">>, <<"a", "s", "r">>, <<"#", "3", "1">> >>,
     executor |-> "exec_reg_logic", struct |-> "RegLogic",
     fields |-> << <<"sf", 0>>, <<"rd", 10>>, <<"rn", 11>>, <<"rm", 12>>, <<"operand", 31>>, <<"shift", 2>>, <<"opc", 3>>, <<"N", 0>> >>],
    \* bics x13, x14, x15
    [line |-> << <<"b", "i", "c", "s">>, <<"x", "1", "3">>, <<"x", "1", "4">>, <<"x", "1", "5">> >>,
     executor |-> "exec_reg_logic", struct |-> "RegLogic",
     fields |-> << <<"sf", 1>>, <<"rd", 13>>, <<"rn", 14>>, <<"rm", 15>>, <<"operand", 0>>, <<"shift", 0>>, <<"opc", 3>>, <<"N", 1>> >>],
    \* madd x1, x2, x3, x4
    [line |-> << <<"m", "a", "d", "d">>, <<"x", "1">>, <<"x", "2">>, <<"x", "3">>, <<"x", "4">> >>,
     executor |-> "exec_reg_multiply", struct |-> "RegMultiply",
     fields |-> << <<"sf", 1>>, <<"rd", 1>>, <<"rn", 2>>, <<"rm", 3>>, <<"ra", 4>>, <<"x", 0>> >>],
    \* msub w5, w6, w7, w8
    [line |-> << <<"m", "s", "u", "b">>, <<"w", "5">>, <<"w", "6">>, <<"w", "7">>, <<"w", "8">> >>,
     executor |-> "exec_reg_multiply", struct |-> "RegMultiply",
     fields |-> << <<"sf", 0>>, <<"rd", 5>>, <<"rn", 6>>, <<"rm", 7>>, <<"ra", 8>>, <<"x", 1>> >>],
    \* movz x0, #5
    [line |-> << <<"m", "o", "v", "z">>, <<"x", "0">>, <<"#", "5">> >>,
     executor |-> "exec_wide_move", struct |-> "ImmWide",
     fields |-> << <<"sf", 1>>, <<"rd", 0>>, <<"imm16", 5>>, <<"hw", 0>>, <<"opc", 2>> >>],
    \* movn w1, #0xffff, lsl #16
    [line |-> << <<"m", "o", "v", "n">>, <<"w", "1">>, <<"#", "0", "x", "f", "f", "f", "f">>, <<"l", "s", "l">>, <<"#", "1", "6">> >>,
     executor |-> "exec_wide_move", struct |-> "ImmWide",
     fields |-> << <<"sf", 0>>, <<"rd", 1>>, <<"imm16", 65535>>, <<"hw", 1>>, <<"opc", 0>> >>],
    \* movk x2, #1, lsl #48
    [line |-> << <<"m", "o", "v", "k">>, <<"x", "2">>, <<"#", "1">>, <<"l", "s", "l">>, <<"#", "4", "8">> >>,
     executor |-> "exec_wide_move", struct |-> "ImmWide",
     fields |-> << <<"sf", 1>>, <<"rd", 2>>, <<"imm16", 1>>, <<"hw", 3>>, <<"opc", 3>> >>],
    \* ldr x1, [x2]
    [line |-> << <<"l", "d", "r">>, <<"x", "1">>, <<"[", "x", "2", "]">> >>,
     executor |-> "exec_dt_imm_offset", struct |-> "DTImmOffset",
     fields |-> << <<"sf", 1>>, <<"L", 1>>, <<"rt", 1>>, <<"xn", 2>>, <<"imm12", 0>> >>],
    \* ldr x1, [x2, #16]
    [line |-> << <<"l", "d", "r">>, <<"x", "1">>, <<"[", "x", "2">>, <<"#", "1", "6", "]">> >>,
     executor |-> "exec_dt_imm_offset", struct |-> "DTImmOffset",
     fields |-> << <<"sf", 1>>, <<"L", 1>>, <<"rt", 1>>, <<"xn", 2>>, <<"imm12", 2>> >>],
    \* str w1, [x2, #8]
    [line |-> << <<"s", "t", "r">>, <<"w", "1">>, <<"[", "x", "2">>, <<"#", "8", "]">> >>,
     executor |-> "exec_dt_imm_offset", struct |-> "DTImmOffset",
     fields |-> << <<"sf", 0>>, <<"L", 0>>, <<"rt", 1>>, <<"xn", 2>>, <<"imm12", 2>> >>],
    \* str x3, [x4, #0x100]
    [line |-> << <<"s", "t", "r">>, <<"x", "3">>, <<"[", "x", "4">>, <<"#", "0", "x", "1", "0", "0", "]">> >>,
     executor |-> "exec_dt_imm_offset", struct |-> "DTImmOffset",
     fields |-> << <<"sf", 1>>, <<"L", 0>>, <<"rt", 3>>, <<"xn", 4>>, <<"imm12", 32>> >>],
    \* ldr x1, [x2, x3]
    [line |-> << <<"l", "d", "r">>, <<"x", "1">>, <<"[", "x", "2">>, <<"x", "3", "]">> >>,
     executor |-> "exec_dt_reg_offset", struct |-> "DTRegOffset",
     fields |-> << <<"sf", 1>>, <<"L", 1>>, <<"rt", 1>>, <<"xn", 2>>, <<"xm", 3>> >>],
    \* str w1, [x2, x3]
    [line |-> << <<"s", "t", "r">>, <<"w", "1">>, <<"[", "x", "2">>, <<"x", "3", "]">> >>,
     executor |-> "exec_dt_reg_offset", struct |-> "DTRegOffset",
     fields |-> << <<"sf", 0>>, <<"L", 0>>, <<"rt", 1>>, <<"xn", 2>>, <<"xm", 3>> >>],
    \* str x1, [x2, #-8]!
    [line |-> << <<"s", "t", "r">>, <<"x", "1">>, <<"[", "x", "2">>, <<"#", "-", "8", "]", "!">> >>,
     executor |-> "exec_dt_pre_index", struct |-> "DTPrePostIndex",
     fields |-> << <<"sf", 1>>, <<"L", 0>>, <<"rt", 1>>, <<"xn", 2>>, <<"simm9", 504>>, <<"I", 1>> >>],
    \* ldr w1, [x2, #16]!
    [line |-> << <<"l", "d", "r">>, <<"w", "1">>, <<"[", "x", "2">>, <<"#", "1", "6", "]", "!">> >>,
     executor |-> "exec_dt_pre_index", struct |-> "DTPrePostIndex",
     fields |-> << <<"sf", 0>>, <<"L", 1>>, <<"rt", 1>>, <<"xn", 2>>, <<"simm9", 16>>, <<"I", 1>> >>],
    \* ldr w1, [x2], #8
    [line |-> << <<"l", "d", "r">>, <<"w", "1">>, <<"[", "x", "2", "]">>, <<"#", "8">> >>,
     executor |-> "exec_dt_post_index", struct |-> "DTPrePostIndex",
     fields |-> << <<"sf", 0>>, <<"L", 1>>, <<"rt", 1>>, <<"xn", 2>>, <<"simm9", 8>>, <<"I", 0>> >>],
    \* str x1, [x2], #-16
    [line |-> << <<"s", "t", "r">>, <<"x", "1">>, <<"[", "x", "2", "]">>, <<"#", "-", "1", "6">> >>,
     executor |-> "exec_dt_post_index", struct |-> "DTPrePostIndex",
     fields |-> << <<"sf", 1>>, <<"L", 0>>, <<"rt", 1>>, <<"xn", 2>>, <<"simm9", 496>>, <<"I", 0>> >>],
    \* ldr x1, end
    [line |-> << <<"l", "d", "r">>, <<"x", "1">>, <<"e", "n", "d">> >>,
     executor |-> "exec_dt_load_literal", struct |-> "DTLoadLiteral",
     fields |-> << <<"sf", 1>>, <<"rt", 1>>, <<"simm19", 524287>> >>],
    \* ldr w1, #0x20
    [line |-> << <<"l", "d", "r">>, <<"w", "1">>, <<"#", "0", "x", "2", "0">> >>,
     executor |-> "exec_dt_load_literal", struct |-> "DTLoadLiteral",
     fields |-> << <<"sf", 0>>, <<"rt", 1>>, <<"simm19", 8>> >>],
    \* b end
    [line |-> << <<"b">>, <<"e", "n", "d">> >>,
     executor |-> "exec_branch_uncond", struct |-> "BranchUncond",
     fields |-> << <<"simm26", 67108863>> >>],
    \* b.eq end
    [line |-> << <<"b", ".", "e", "q">>, <<"e", "n", "d">> >>,
     executor |-> "exec_branch_cond", struct |-> "BranchCond",
     fields |-> << <<"cond", 0>>, <<"simm19", 524287>> >>],
    \* b.ne end
    [line |-> << <<"b", ".", "n", "e">>, <<"e", "n", "d">> >>,
     executor |-> "exec_branch_cond", struct |-> "BranchCond",
     fields |-> << <<"cond", 1>>, <<"simm19", 524287>> >>],
    \* b.ge end
    [line |-> << <<"b", ".", "g", "e">>, <<"e", "n", "d">> >>,
     executor |-> "exec_branch_cond", struct |-> "BranchCond",
     fields |-> << <<"cond", 10>>, <<"simm19", 524287>> >>],
    \* b.lt end
    [line |-> << <<"b", ".", "l", "t">>, <<"e", "n", "d">> >>,
     executor |-> "exec_branch_cond", struct |-> "BranchCond",
     fields |-> << <<"cond", 11>>, <<"simm19", 524287>> >>],
    \* b.gt end
    [line |-> << <<"b", ".", "g", "t">>, <<"e", "n", "d">> >>,
     executor |-> "exec_branch_cond", struct |-> "BranchCond",
     fields |-> << <<"cond", 12>>, <<"simm19", 524287>> >>],
    \* b.le end
    [line |-> << <<"b", ".", "l", "e">>, <<"e", "n", "d">> >>,
     executor |-> "exec_branch_cond", struct |-> "BranchCond",
     fields |-> << <<"cond", 13>>, <<"simm19", 524287>> >>],
    \* b.al end
    [line |-> << <<"b", ".", "a", "l">>, <<"e", "n", "d">> >>,
     executor |-> "exec_branch_cond", struct |-> "BranchCond",
     fields |-> << <<"cond", 14>>, <<"simm19", 524287>> >>],
    \* br x5
    [line |-> << <<"b", "r">>, <<"x", "5">> >>,
     executor |-> "exec_branch_reg", struct |-> "BranchReg",
     fields |-> << <<"xn", 5>> >>] }

AliasPairs == {
    \* neg x1, x2  /  sub x1, xzr, x2
    << << <<"n", "e", "g">>, <<"x", "1">>, <<"x", "2">> >>,
       << <<"s", "u", "b">>, <<"x", "1">>, <<"x", "z", "r">>, <<"x", "2">> >> >>,
    \* neg x1, x2, lsl #3  /  sub x1, xzr, x2, lsl #3
    << << <<"n", "e", "g">>, <<"x", "1">>, <<"x", "2">>, <<"l", "s", "l">>, <<"#", "3">> >>,
       << <<"s", "u", "b">>, <<"x", "1">>, <<"x", "z", "r">>, <<"x", "2">>, <<"l", "s", "l">>, <<"#", "3">> >> >>,
    \* negs w1, w2  /  subs w1, wzr, w2
    << << <<"n", "e", "g", "s">>, <<"w", "1">>, <<"w", "2">> >>,
       << <<"s", "u", "b", "s">>, <<"w", "1">>, <<"w", "z", "r">>, <<"w", "2">> >> >>,
    \* negs w1, w2, asr #2  /  subs w1, wzr, w2, asr #2
    << << <<"n", "e", "g", "s">>, <<"w", "1">>, <<"w", "2">>, <<"a", "s", "r">>, <<"#", "2">> >>,
       << <<"s", "u", "b", "s">>, <<"w", "1">>, <<"w", "z", "r">>, <<"w", "2">>, <<"a", "s", "r">>, <<"#", "2">> >> >>,
    \* cmp x1, x2  /  subs xzr, x1, x2
    << << <<"c", "m", "p">>, <<"x", "1">>, <<"x", "2">> >>,
       << <<"s", "u", "b", "s">>, <<"x", "z", "r">>, <<"x", "1">>, <<"x", "2">> >> >>,
    \* cmp x1, x2, lsl #3  /  subs xzr, x1, x2, lsl #3
    << << <<"c", "m", "p">>, <<"x", "1">>, <<"x", "2">>, <<"l", "s", "l">>, <<"#", "3">> >>,
       << <<"s", "u", "b", "s">>, <<"x", "z", "r">>, <<"x", "1">>, <<"x", "2">>, <<"l", "s", "l">>, <<"#", "3">> >> >>,
    \* cmp w1, #5  /  subs wzr, w1, #5
    << << <<"c", "m", "p">>, <<"w", "1">>, <<"#", "5">> >>,
       << <<"s", "u", "b", "s">>, <<"w", "z", "r">>, <<"w", "1">>, <<"#", "5">> >> >>,
    \* cmn x1, x2  /  adds xzr, x1, x2
    << << <<"c", "m", "n">>, <<"x", "1">>, <<"x", "2">> >>,
       << <<"a", "d", "d", "s">>, <<"x", "z", "r">>, <<"x", "1">>, <<"x", "2">> >> >>,
    \* cmn w1, w2, lsr #1  /  adds wzr, w1, w2, lsr #1
    << << <<"c", "m", "n">>, <<"w", "1">>, <<"w", "2">>, <<"l", "s", "r">>, <<"#", "1">> >>,
       << <<"a", "d", "d", "s">>, <<"w", "z", "r">>, <<"w", "1">>, <<"w", "2">>, <<"l", "s", "r">>, <<"#", "1">> >> >>,
    \* tst x1, x2  /  ands xzr, x1, x2
    << << <<"t", "s", "t">>, <<"x", "1">>, <<"x", "2">> >>,
       << <<"a", "n", "d", "s">>, <<"x", "z", "r">>, <<"x", "1">>, <<"x", "2">> >> >>,
    \* tst w1, w2, ror #7  /  ands wzr, w1, w2, ror #7
    << << <<"t", "s", "t">>, <<"w", "1">>, <<"w", "2">>, <<"r", "o", "r">>, <<"#", "7">> >>,
       << <<"a", "n", "d", "s">>, <<"w", "z", "r">>, <<"w", "1">>, <<"w", "2">>, <<"r", "o", "r">>, <<"#", "7">> >> >>,
    \* mvn x1, x2  /  orn x1, xzr, x2
    << << <<"m", "v", "n">>, <<"x", "1">>, <<"x", "2">> >>,
       << <<"o", "r", "n">>, <<"x", "1">>, <<"x", "z", "r">>, <<"x", "2">> >> >>,
    \* mvn x1, x2, lsl #3  /  orn x1, xzr, x2, lsl #3
    << << <<"m", "v", "n">>, <<"x", "1">>, <<"x", "2">>, <<"l", "s", "l">>, <<"#", "3">> >>,
       << <<"o", "r", "n">>, <<"x", "1">>, <<"x", "z", "r">>, <<"x", "2">>, <<"l", "s", "l">>, <<"#", "3">> >> >>,
    \* mov x1, x2  /  orr x1, xzr, x2
    << << <<"m", "o", "v">>, <<"x", "1">>, <<"x", "2">> >>,
       << <<"o", "r", "r">>, <<"x", "1">>, <<"x", "z", "r">>, <<"x", "2">> >> >>,
    \* mov w1, w2, lsl #3  /  orr w1, wzr, w2, lsl #3
    << << <<"m", "o", "v">>, <<"w", "1">>, <<"w", "2">>, <<"l", "s", "l">>, <<"#", "3">> >>,
       << <<"o", "r", "r">>, <<"w", "1">>, <<"w", "z", "r">>, <<"w", "2">>, <<"l", "s", "l">>, <<"#", "3">> >> >>,
    \* mul x1, x2, x3  /  madd x1, x2, x3, xzr
    << << <<"m", "u", "l">>, <<"x", "1">>, <<"x", "2">>, <<"x", "3">> >>,
       << <<"m", "a", "d", "d">>, <<"x", "1">>, <<"x", "2">>, <<"x", "3">>, <<"x", "z", "r">> >> >>,
    \* mneg w1, w2, w3  /  msub w1, w2, w3, wzr
    << << <<"m", "n", "e", "g">>, <<"w", "1">>, <<"w", "2">>, <<"w", "3">> >>,
       << <<"m", "s", "u", "b">>, <<"w", "1">>, <<"w", "2">>, <<"w", "3">>, <<"w", "z", "r">> >> >> }

EncLines ==
    {k.line : k \in EncCases} \cup {p[1] : p \in AliasPairs}
    \cup {p[2] : p \in AliasPairs}

\* and x0, x0, x0 ; end: ; and x0, x0, x0  -- the label end lies one word
\* before the line assembled next
EncPrologue == << HaltLine, << <<"e", "n", "d", ":">> >>, HaltLine >>

InitEnc ==
    /\ \E st \in {decode_all(decode_init, EncPrologue)} :
           /\ st.ok
           /\ instructions = st.instructions
           /\ current_address = st.current_address
           /\ labels = st.labels
           /\ addresses = st.addresses
    /\ asm_pc = "decoding"
    /\ nlines = Len(EncPrologue)
    /\ CpuIdle
    /\ call = [op |-> "none"]

\* decode on the line; the call record keeps the line and the word emitted
EncodeLine(line) ==
    /\ asm_pc = "decoding"
    /\ call.op = "none"
    /\ \E st \in {decode(AsmState, line)} :
           /\ instructions' = st.instructions
           /\ current_address' = st.current_address
           /\ labels' = st.labels
           /\ addresses' = st.addresses
           /\ asm_pc' = IF st.ok THEN "decoding" ELSE "fatal"
           /\ call' = [op |-> "encoded", line |-> line, ok |-> st.ok,
                       word |-> IF st.ok THEN st.instructions[Len(st.instructions)]
                                ELSE U32(0),
                       executor |-> "none"]
    /\ nlines' = nlines + 1
    /\ UNCHANGED cpu_vars

\* decode_and_execute on the emitted word, in the emulator as initialised
DispatchWord ==
    /\ call.op = "encoded"
    /\ call.ok
    /\ \E c \in {decode_and_execute(CpuRec, call.word)} :
           /\ gen_registers' = c.gen_registers
           /\ program_counter' = c.program_counter
           /\ pstate' = c.pstate
           /\ mem' = c.mem
           /\ cpu_pc' = IF c.status = "ok" THEN "off" ELSE c.status
    /\ call' = [call EXCEPT !.op = "dispatched", !.executor = executor_of(call.word)]
    /\ UNCHANGED <<asm_vars, last, nsteps>>

NextEnc == (\E line \in EncLines : EncodeLine(line)) \/ DispatchWord

SpecEnc == InitEnc /\ [][NextEnc]_vars

-----------------------------------------------------------------------------
(* Claims about the assembler (checked under SpecAsm) *)

\* the set of elements of a sequence
Range(s) == {s[i] : i \in 1..Len(s)}

\* the displacement field of a referring word, and the rest of the word:
\* bits 0..25 of an unconditional branch (top six bits 000101), bits 5..23
\* of a conditional branch or a load literal
IsUncondWord(w) == w[2] \div 1024 = 5
DispOf(w) == IF IsUncondWord(w) THEN w[1] + (w[2] % 1024) * 65536
             ELSE (w[1] \div 32) + (w[2] % 256) * 2048
RestOf(w) == IF IsUncondWord(w) THEN <<w[2] \div 1024>>
             ELSE <<w[1] % 32, w[2] \div 256>>

C1_Patched(l, L) ==
    /\ L = current_address
    /\ Len(instructions') = Len(instructions)
    /\ \A k \in 1..Len(instructions) :
           IF l \in DOMAIN addresses /\ (k - 1) * 4 \in Range(addresses[l])
           THEN /\ DispOf(instructions'[k]) = (L - (k - 1) * 4) \div 4
                /\ RestOf(instructions'[k]) = RestOf(instructions[k])
           ELSE instructions'[k] = instructions[k]

C1_Step ==
    (asm_pc = "decoding" /\ asm_pc' = "decoding" /\ DOMAIN labels' # DOMAIN labels) =>
        \E l \in DOMAIN labels' \ DOMAIN labels : C1_Patched(l, labels'[l])

\* C1: when a label is defined at address L, every emitted word at a
\* recorded referring address R gets the displacement field (L - R)/4, its
\* other bits and all other emitted words staying as they were.
C1_BackPatch == [][C1_Step]_vars

\* a label defined after two references of different kinds, both patched
\* with a non-zero displacement
C1_Witness ==
    \E l \in DOMAIN labels \cap DOMAIN addresses :
        /\ Len(addresses[l]) >= 2
        /\ \E i, j \in 1..Len(addresses[l]) :
               /\ IsUncondWord(instructions[(addresses[l][i] \div 4) + 1])
               /\ ~IsUncondWord(instructions[(addresses[l][j] \div 4) + 1])
        /\ \A i \in 1..Len(addresses[l]) :
               /\ labels[l] > addresses[l][i]
               /\ DispOf(instructions[(addresses[l][i] \div 4) + 1])
                      = (labels[l] - addresses[l][i]) \div 4

\* C2: when the output has been written, no referenced label is undefined.
C2_EndOfPassValidation ==
    asm_pc = "written" => \A l \in DOMAIN addresses : l \in DOMAIN labels

\* C3: no label is both in labels and in addresses.
C3_DefinedPendingDisjoint == DOMAIN labels \cap DOMAIN addresses = {}

-----------------------------------------------------------------------------
(* Claims about the flags of additions and subtractions (checked under     *)
(* SpecArith).  The exact sum or difference is computed with one more limb *)
(* than the operands have, so it never wraps.                              *)

\* the operand extended by one limb, as a signed and as an unsigned value
SExtL(a) == Append(a, IF MsbL(a) THEN LIMB - 1 ELSE 0)
ZExtL(a) == Append(a, 0)

\* the exact signed result of the call, and whether it fits the signed width
ExactSigned(a, b, opc_op) ==
    IF opc_op # 0 THEN MinusL(SExtL(a), SExtL(b)) ELSE PlusL(SExtL(a), SExtL(b))
FitsSigned(x) ==
    x[Len(x)] = IF x[Len(x) - 1] >= 32768 THEN LIMB - 1 ELSE 0

\* the exact unsigned result of the call (a borrow shows in the extra limb)
ExactUnsigned(a, b, opc_op) ==
    IF opc_op # 0 THEN MinusL(ZExtL(a), ZExtL(b)) ELSE PlusL(ZExtL(a), ZExtL(b))

\* the w-bit result: the exact result without its extra limb
WResult(a, b, opc_op) ==
    SubSeq(ExactUnsigned(a, b, opc_op), 1, Len(a))

FlagSettingDone == call.op = "done" /\ call.opc_flag = 1

\* C6: after a flag-setting addition or subtraction at width 32 or 64, V is
\* true exactly when the exact signed result does not fit in the width
\* (signed overflow).
C6_OverflowFlag ==
    FlagSettingDone =>
        (pstate.overflow_flag <=>
             ~FitsSigned(ExactSigned(call.src, call.operand2, call.opc_op)))

\* C7: after a flag-setting addition C is true exactly when the exact
\* unsigned sum does not fit in the width; after a flag-setting subtraction
\* C is true exactly when a >= b, that is when the exact difference needs
\* no borrow; in both cases N is bit w-1 of the w-bit result and Z is true
\* exactly when the w-bit result is zero.
C7_CarryNegativeZero ==
    FlagSettingDone =>
        /\ pstate.carry_flag <=>
               IF call.opc_op = 0
               THEN ExactUnsigned(call.src, call.operand2, 0)[Len(call.src) + 1] # 0
               ELSE ExactUnsigned(call.src, call.operand2, 1)[Len(call.src) + 1] = 0
        /\ pstate.negative_flag <=>
               BitL(WResult(call.src, call.operand2, call.opc_op),
                    16 * Len(call.src) - 1) = 1
        /\ pstate.zero_flag <=>
               (\A i \in 1..Len(call.src) :
                    WResult(call.src, call.operand2, call.opc_op)[i] = 0)

\* a subtraction of equal operands (C and Z set) has been performed with the
\* flags requested
C7_Witness ==
    /\ FlagSettingDone
    /\ call.opc_op = 1
    /\ call.src = call.operand2
    /\ pstate.carry_flag /\ pstate.zero_flag

-----------------------------------------------------------------------------
(* Claims about the emulator's loop (checked under SpecCpu) *)

\* one step of the loop driver, as C4 describes it
C4_Step ==
    (cpu_pc = "running" /\ fetch_ok(CpuRec)) =>
        /\ last'.word = get_word(mem, Trunc32(program_counter))
        /\ last'.pc = program_counter
        /\ IF fetch(CpuRec) = Hex32(35328, 0)
           THEN /\ cpu_pc' = "halted"
                /\ UNCHANGED <<gen_registers, pstate, mem, program_counter>>
           ELSE cpu_pc' = "running" =>
                    program_counter' =
                        IF is_branch(fetch(CpuRec))
                        THEN decode_and_execute(CpuRec, fetch(CpuRec)).program_counter
                        ELSE PlusL(program_counter, U64(4))

\* C4: every iteration of run_cpu works on the word at PC.  If that word is
\* 0x8A000000 the loop stops and registers, flags, memory and PC are as they
\* were.  Otherwise the word is executed, and afterwards PC is the old PC
\* plus 4 when the word is not of the branch group, and the PC the branch
\* executor set, with nothing added, when it is.
C4_LoopDriver == [][C4_Step]_vars

\* a run that executed a branch and an instruction that is no branch has
\* reached the halt word
C4_Witness ==
    /\ cpu_pc = "halted"
    /\ call.branched /\ call.plain

\* the image of  movz x0, #5 ; and x0, x0, x0  (0xd28000a0, 0x8a000000)
Scenario1 == instructions = <<Hex32(53888, 160), Hex32(35328, 0)>>

NoFlag(p) ==
    ~p.negative_flag /\ ~p.zero_flag /\ ~p.carry_flag /\ ~p.overflow_flag

IsStore(inst) ==
    /\ executor_of(inst) \in {"exec_dt_imm_offset", "exec_dt_reg_offset",
                              "exec_dt_pre_index", "exec_dt_post_index"}
    /\ Get(inst, "DTImmOffset", "L") = 0

\* the effective address of a data transfer in the state before it
EffectiveAddress(inst) ==
    LET Xn == get_reg_value_64(CpuRec, Get(inst, "DTImmOffset", "xn"))
    IN  CASE executor_of(inst) = "exec_dt_imm_offset" ->
                 PlusL(Xn, U64(Get(inst, "DTImmOffset", "imm12")
                               * (IF Get(inst, "DTImmOffset", "sf") = 1 THEN 8 ELSE 4)))
          [] executor_of(inst) = "exec_dt_reg_offset" ->
                 PlusL(Xn, get_reg_value_64(CpuRec, Get(inst, "DTRegOffset", "xm")))
          [] executor_of(inst) = "exec_dt_pre_index" ->
                 PlusL(Xn, Int64(sign_extend(Get(inst, "DTPrePostIndex", "simm9"), 9)))
          [] OTHER -> Xn

\* the memory after a store of the low n bytes of value at address a
StoredAt(a, n, value) ==
    \A x \in DOMAIN mem \cup DOMAIN mem' \cup (a..(a + n - 1)) :
        MemByte(mem', x) =
            IF x >= a /\ x < a + n THEN BytesOf(value)[x - a + 1]
            ELSE MemByte(mem, x)

\* one store, as C8 describes it
C8_Step ==
    (/\ cpu_pc = "running" /\ fetch_ok(CpuRec)
     /\ IsStore(fetch(CpuRec))
     /\ cpu_pc' = "running"
     /\ nsteps' = nsteps + 1) =>
        StoredAt(AddrOf(Trunc32(EffectiveAddress(fetch(CpuRec)))),
                 IF Get(fetch(CpuRec), "DTImmOffset", "sf") = 1 THEN 8 ELSE 4,
                 get_reg_value_64(CpuRec, Get(fetch(CpuRec), "DTImmOffset", "rt")))

\* C8: a store that completes, in any of the four addressing modes, writes
\* the low 4 bytes of rt when sf = 0 and the 8 bytes of rt when sf = 1 at the
\* effective address, and leaves every other byte of the memory as it was.
C8_StoreWidth == [][C8_Step]_vars

-----------------------------------------------------------------------------
(* Claims about the encoder and the dispatch (checked under SpecEnc) *)

\* C9: the word emitted for an alias line, with or without a shift suffix,
\* is the word emitted for its canonical form written with the zero
\* register.
C9_AliasWord ==
    call.op = "encoded" =>
        \A p \in AliasPairs :
            call.line = p[1] =>
                /\ call.ok
                /\ AssembleLine(p[2], 0, hashmap_init, hashmap_init).ok
                /\ call.word = AssembleLine(p[2], 0, hashmap_init, hashmap_init).data

\* C10: the word emitted for an instruction line is dispatched to the
\* executor of the line's variant, and every field that executor reads has
\* the value the text of the line stands for.
C10_RoundTrip ==
    call.op = "dispatched" =>
        \A k \in EncCases :
            call.line = k.line =>
                /\ call.executor = k.executor
                /\ \A i \in 1..Len(k.fields) :
                       Get(call.word, k.struct, k.fields[i][1]) = k.fields[i][2]

\* a pre-indexed store with a negative offset has been encoded and dispatched
C10_Witness ==
    /\ call.op = "dispatched"
    /\ call.executor = "exec_dt_pre_index"
    /\ \E k \in EncCases : k.line = call.line /\ k.executor = "exec_dt_pre_index"
    /\ Get(call.word, "DTPrePostIndex", "simm9") = 504

-----------------------------------------------------------------------------
(* SpecBr: a branch to a label, assembled at address A with the label at   *)
(* address L, then executed with the program counter at A.  The label is   *)
(* either already in labels when the branch line is assembled (L <= A), or *)
(* defined later (L > A), in which case symbol_table_add_label patches the *)
(* word through modify_line.  Addresses are taken from both ends and the   *)
(* middle of the 2 MiB memory.                                             *)

BrOpcodes == {<<"b">>} \cup {<<"b", ".">> \o n : n \in CondNames}

BrAddresses == {0, 4, 1048572, 1048576, 1048580, 2097148}

BrFlags == [negative_flag : BOOLEAN, zero_flag : BOOLEAN,
            carry_flag : BOOLEAN, overflow_flag : BOOLEAN]

\* the label of the branch line is tok_end; it is defined at L
BrCalls ==
    {k \in [op : {"input"}, opcode : BrOpcodes, A : BrAddresses,
            L : BrAddresses \cup {NUM_OF_MEMORY_ADDRESS}, word : {U32(0)}] :
        k.A + INSTR_SIZE <= NUM_OF_MEMORY_ADDRESS}

InitBr ==
    /\ AsmIdle
    /\ call \in BrCalls
    /\ gen_registers = init_register.gen
    /\ program_counter = U64(call.A)
    /\ pstate \in BrFlags
    /\ mem = init_memory
    /\ cpu_pc = "off"
    /\ last = [kind |-> "none"]
    /\ nsteps = 0

\* decode on the branch line at current_address = A: the label is known
\* when it was defined at or before A, and pending otherwise
BrAssemble ==
    /\ call.op = "input"
    /\ \E e \in {assemble_branch(call.opcode, OperandsOf(<<call.opcode, tok_end>>),
                     call.A,
                     IF call.L <= call.A THEN hashmap_set(hashmap_init, tok_end, call.L)
                     ELSE hashmap_init,
                     hashmap_init)} :
           /\ e.ok
           /\ call' = [call EXCEPT !.word = e.data,
                          !.op = IF hashmap_contains(e.addresses, tok_end)
                                 THEN "pending" ELSE "ready"]
    /\ UNCHANGED <<asm_vars, cpu_vars>>

\* symbol_table_add_label at current_address = L: modify_line on the word
\* of the pending reference
BrDefine ==
    /\ call.op = "pending"
    /\ \E m \in {modify_line(call.word, call.A, call.L)} :
           /\ m.ok
           /\ call' = [call EXCEPT !.word = m.data, !.op = "ready"]
    /\ UNCHANGED <<asm_vars, cpu_vars>>

\* decode_and_execute on the word, the program counter being A
BrExecute ==
    /\ call.op = "ready"
    /\ \E c \in {decode_and_execute(CpuRec, call.word)} :
           /\ gen_registers' = c.gen_registers
           /\ program_counter' = c.program_counter
           /\ pstate' = c.pstate
           /\ mem' = c.mem
           /\ cpu_pc' = IF c.status = "ok" THEN "off" ELSE c.status
    /\ call' = [call EXCEPT !.op = "done"]
    /\ UNCHANGED <<asm_vars, last, nsteps>>

NextBr == BrAssemble \/ BrDefine \/ BrExecute

SpecBr == InitBr /\ [][NextBr]_vars

-----------------------------------------------------------------------------
(* Claims about branches to labels (checked under SpecBr) *)

\* the branch of the call is taken under the flags p
BrTaken(p) ==
    LET Holds(n) ==
            CASE n = <<"e", "q">> -> p.zero_flag
              [] n = <<"n", "e">> -> ~p.zero_flag
              [] n = <<"g", "e">> -> p.negative_flag = p.overflow_flag
              [] n = <<"l", "t">> -> p.negative_flag # p.overflow_flag
              [] n = <<"g", "t">> -> ~p.zero_flag /\ p.negative_flag = p.overflow_flag
              [] n = <<"l", "e">> -> p.zero_flag \/ p.negative_flag # p.overflow_flag
              [] OTHER -> TRUE
    IN  call.opcode = <<"b">> \/ Holds(Skip(call.opcode, 2))

\* the word displacement from A to L lies in the range of the signed field
\* of the branch: 26 bits for b, 19 bits for b.cond
BrInRange ==
    LET Fits(d, n) == d >= 0 - Pow2(n - 1) /\ d < Pow2(n - 1)
    IN  Fits(CDiv(call.L - call.A, 4), IF call.opcode = <<"b">> THEN 26 ELSE 19)

\* C11 as stated: executing the word of b label or of a taken b.cond label,
\* assembled at A with the label at L before or after it, at PC = A sets PC
\* to L.
C11_BranchTarget ==
    (call.op = "done" /\ BrTaken(pstate)) => program_counter = U64(call.L)

\* C11 amended: executing the word of b label or of a taken b.cond label,
\* assembled at A with the label at L before or after it, at PC = A sets PC
\* to L whenever the word displacement (L - A)/4 lies in the range of the
\* signed field (simm26 for b, simm19 for b.cond).
C11_BranchTargetInRange ==
    (call.op = "done" /\ BrTaken(pstate) /\ BrInRange) =>
        program_counter = U64(call.L)

\* a taken conditional branch to a label defined before it, with a negative
\* displacement, has been executed and the program counter is at the label
C11_Witness ==
    /\ call.op = "done"
    /\ call.opcode = <<"b", ".", "n", "e">>
    /\ BrTaken(pstate)
    /\ call.L < call.A
    /\ program_counter = U64(call.L)

-----------------------------------------------------------------------------
(* SpecDec: decode_and_execute on a word of any bit pattern in its         *)
(* selector bits, in an emulator whose registers and program counter are   *)
(* not zero.  The high half of the word takes every value of bits 21..31;  *)
(* the low half sets the condition code and the I bit.                     *)

DecHighs == {h * 32 : h \in 0..2047}
DecLows == {0, 5, 14, 2049}

DecWords == {<<l, h>> : l \in DecLows, h \in DecHighs}

\* registers after some instructions have run: X[i] = 16 * (i + 1), PC = 8
InitDec ==
    /\ AsmIdle
    /\ gen_registers = [i \in 0..30 |-> U64(16 * (i + 1))]
    /\ program_counter = U64(8)
    /\ pstate = init_pstate
    /\ mem = init_memory
    /\ cpu_pc = "running"
    /\ last = [kind |-> "none"]
    /\ nsteps = 0
    /\ call \in [op : {"input"}, word : DecWords]

\* decode_and_execute(inst) on the word
DecDispatch ==
    /\ call.op = "input"
    /\ \E c \in {decode_and_execute(CpuRec, call.word)} :
           /\ gen_registers' = c.gen_registers
           /\ program_counter' = c.program_counter
           /\ pstate' = c.pstate
           /\ mem' = c.mem
           /\ cpu_pc' = IF c.status = "ok" THEN "running" ELSE c.status
    /\ call' = [call EXCEPT !.op = "done"]
    /\ UNCHANGED <<asm_vars, last, nsteps>>

NextDec == DecDispatch

SpecDec == InitDec /\ [][NextDec]_vars

-----------------------------------------------------------------------------
(* Claims about the dispatch of arbitrary words (checked under SpecDec) *)

\* the word belongs to a supported variant: its group selector (bits 28..25)
\* and the secondary selectors of the group have supported values
SupportedWord(w) ==
    LET b(i) == BitL(w, i)
        grp == <<b(28), b(27), b(26), b(25)>>
        id == 2 * b(31) + b(30)
        cond == GetBits(w, 0, 4)
        opi == GetBits(w, 23, 3)
    IN  \/ /\ grp[1] = 1 /\ grp[2] = 0 /\ grp[3] = 1            \* branch
           /\ \/ id = 0
              \/ id = 3
              \/ id = 1 /\ cond \in {0, 1, 10, 11, 12, 13, 14}
        \/ /\ grp[1] = 1 /\ grp[2] = 0 /\ grp[3] = 0            \* DP immediate
           /\ opi \in {2, 5}
        \/ grp[2] = 1 /\ grp[3] = 0 /\ grp[4] = 1               \* DP register
        \/ grp[2] = 1 /\ grp[4] = 0                             \* data transfer

\* the dispatch of a word that belongs to no supported variant
C12_Step ==
    (call.op = "input" /\ call'.op = "done" /\ ~SupportedWord(call.word)) =>
        /\ cpu_pc' = "fatal"
        /\ UNCHANGED <<gen_registers, program_counter, pstate, mem>>

\* C12: a word whose group selector or one of whose secondary selectors
\* (branch id, condition code, DP-immediate opi) matches no supported variant
\* is a fatal decode error, and no register, flag, memory byte or the PC
\* changes.
C12_DecodeErrors == [][C12_Step]_vars

-----------------------------------------------------------------------------
(* SpecReg: after the prologue of SpecEnc one line is assembled that has a *)
(* register operand under test, valid or not, in one of the operand        *)
(* positions of the encoders.                                              *)

RegNames == {
    <<"x", "0">>, <<"x", "3", "0">>, <<"w", "0">>, <<"w", "3", "0">>,
    <<"x", "z", "r">>, <<"w", "z", "r">>, <<"r", "z", "r">>,
    <<"x", "3", "1">>, <<"w", "3", "1">>, <<"x", "3", "2">>, <<"x", "4", "5">>,
    <<"w", "9", "9">>, <<"x", "f", "o", "o">>, <<"w", "a">>, <<"x">>,
    <<"x", "-", "1">>, <<"x", "1", "a">>, <<"y", "5">>, <<"r", "5">>,
    <<"5">>, <<"z", "r">> }

\* the lines with the register r under test
RegLinesOf(r) == {
    << <<"a", "d", "d">>, r, tok_x1, tok_x1 >>,                  \* add r, x1, x1
    << <<"a", "d", "d">>, tok_x1, r, tok_x1 >>,                  \* add x1, r, x1
    << <<"s", "u", "b", "s">>, tok_x1, tok_x1, r >>,             \* subs x1, x1, r
    << <<"m", "a", "d", "d">>, tok_x1, tok_x1, tok_x1, r >>,     \* madd x1, x1, x1, r
    << <<"a", "n", "d">>, tok_x1, r, tok_x1 >>,                  \* and x1, r, x1
    << <<"m", "o", "v", "z">>, r, <<"#", "1">> >>,               \* movz r, #1
    << <<"l", "d", "r">>, r, <<"[", "x", "1", "]">> >>,          \* ldr r, [x1]
    << <<"l", "d", "r">>, tok_x1, <<"[">> \o r \o <<"]">> >>,    \* ldr x1, [r]
    << <<"s", "t", "r">>, tok_x1, <<"[", "x", "1">>, r \o <<"]">> >>,  \* str x1, [x1, r]
    << <<"b", "r">>, r >> }                                      \* br r

RegCases == UNION {{[line |-> l, reg |-> r] : l \in RegLinesOf(r)} : r \in RegNames}

NextReg == \E k \in RegCases : EncodeLine(k.line)

SpecReg == InitEnc /\ [][NextReg]_vars

-----------------------------------------------------------------------------
(* Claims about register operands (checked under SpecReg) *)

\* the register names of the language: x0..x30, w0..w30, xzr, wzr, rzr
DecimalOf(n) ==
    LET D == <<"0", "1", "2", "3", "4", "5", "6", "7", "8", "9">>
    IN  IF n < 10 THEN <<D[n + 1]>> ELSE <<D[(n \div 10) + 1], D[(n % 10) + 1]>>
ValidRegisterNames ==
    {<<p>> \o DecimalOf(n) : p \in {"x", "w"}, n \in 0..30}
    \cup {<<"x", "z", "r">>, <<"w", "z", "r">>, <<"r", "z", "r">>}

\* C13: a line with a register operand that is not one of x0..x30, w0..w30,
\* xzr, wzr, rzr makes the encoder fail fatally, and no word is emitted for
\* it.
C13_InvalidRegisterFatal ==
    call.op = "encoded" =>
        \A k \in RegCases :
            (call.line = k.line /\ k.reg \notin ValidRegisterNames) =>
                /\ ~call.ok
                /\ asm_pc = "fatal"
                /\ Len(instructions) = Len(EncPrologue) - 1

-----------------------------------------------------------------------------
(* SpecMem: the accessors of memory.c called on the memory after           *)
(* init_memory, at aligned and unaligned addresses at both ends of the     *)
(* memory and beyond it.  last keeps, for every address written so far,    *)
(* the byte written there last, and the most recent store; nsteps counts   *)
(* the stores.                                                             *)

MaxStores == 2

MemAddresses == {U32(0), U32(1), U32(4), Hex32(31, 65528), Hex32(31, 65529),
                 Hex32(31, 65532), Hex32(31, 65533), Hex32(65535, 65532)}

MemValues == {Hex64(34661, 17185, 4660, 22136), Hex64(0, 255, 65280, 1)}

\* byte i (0 for the lowest) of a value of 16-bit fields
ByteOf(v, i) == IF i % 2 = 0 THEN v[(i \div 2) + 1] % 256 ELSE v[(i \div 2) + 1] \div 256

InitMem ==
    /\ AsmIdle
    /\ gen_registers = init_register.gen
    /\ program_counter = init_register.pc
    /\ pstate = init_pstate
    /\ mem = init_memory
    /\ cpu_pc = "running"
    /\ last = [bytes |-> [a \in {} |-> 0], store |-> [op |-> "none"]]
    /\ nsteps = 0
    /\ call = [op |-> "none"]

\* the bytes written last, after size bytes of data were written at address
Written(address, data, size) ==
    [x \in DOMAIN last.bytes \cup (AddrOf(address)..(AddrOf(address) + size - 1)) |->
        IF x >= AddrOf(address) /\ x < AddrOf(address) + size
        THEN ByteOf(data, x - AddrOf(address)) ELSE last.bytes[x]]

\* set_word(address, data): the argument is converted to the 32-bit word
SetWord(address, data) ==
    /\ cpu_pc = "running" /\ nsteps < MaxStores
    /\ call' = [op |-> "set_word", address |-> address, data |-> data,
                ok |-> word_ok(address)]
    /\ IF word_ok(address)
       THEN /\ mem' = set_word(mem, address, Trunc32(data))
            /\ last' = [bytes |-> Written(address, data, 4),
                        store |-> [op |-> "set_word", address |-> address,
                                   data |-> data]]
            /\ UNCHANGED cpu_pc
       ELSE /\ cpu_pc' = "fatal"
            /\ UNCHANGED <<mem, last>>
    /\ nsteps' = nsteps + 1
    /\ UNCHANGED <<asm_vars, gen_registers, program_counter, pstate>>

\* set_double_word(address, data)
SetDoubleWord(address, data) ==
    /\ cpu_pc = "running" /\ nsteps < MaxStores
    /\ call' = [op |-> "set_double_word", address |-> address, data |-> data,
                ok |-> double_word_ok(address)]
    /\ IF double_word_ok(address)
       THEN /\ mem' = set_double_word(mem, address, data)
            /\ last' = [bytes |-> Written(address, data, 8),
                        store |-> [op |-> "set_double_word", address |-> address,
                                   data |-> data]]
            /\ UNCHANGED cpu_pc
       ELSE /\ cpu_pc' = "fatal"
            /\ UNCHANGED <<mem, last>>
    /\ nsteps' = nsteps + 1
    /\ UNCHANGED <<asm_vars, gen_registers, program_counter, pstate>>

\* get_word(address); the result is kept in call.data
GetWord(address) ==
    /\ cpu_pc = "running"
    /\ call.op \notin {"get_word", "get_double_word"}
    /\ call' = [op |-> "get_word", address |-> address,
                data |-> IF word_ok(address) THEN get_word(mem, address) ELSE U32(0),
                ok |-> word_ok(address)]
    /\ cpu_pc' = IF word_ok(address) THEN "halted" ELSE "fatal"
    /\ UNCHANGED <<asm_vars, gen_registers, program_counter, pstate, mem, last, nsteps>>

\* get_double_word(address)
GetDoubleWord(address) ==
    /\ cpu_pc = "running"
    /\ call.op \notin {"get_word", "get_double_word"}
    /\ call' = [op |-> "get_double_word", address |-> address,
                data |-> IF double_word_ok(address)
                         THEN get_double_word(mem, address) ELSE U64(0),
                ok |-> double_word_ok(address)]
    /\ cpu_pc' = IF double_word_ok(address) THEN "halted" ELSE "fatal"
    /\ UNCHANGED <<asm_vars, gen_registers, program_counter, pstate, mem, last, nsteps>>

NextMem ==
    \E address \in MemAddresses :
        \/ \E data \in MemValues : SetWord(address, data) \/ SetDoubleWord(address, data)
        \/ GetWord(address)
        \/ GetDoubleWord(address)

SpecMem == InitMem /\ [][NextMem]_vars

-----------------------------------------------------------------------------
(* Claims about the memory accessors (checked under SpecMem) *)

\* the number of bytes the accessor of the call touches
AccessSize(k) == IF k.op \in {"set_word", "get_word"} THEN 4 ELSE 8

\* the byte written last at address x, zero when none was
LastByte(x) == IF x \in DOMAIN last.bytes THEN last.bytes[x] ELSE 0

\* the little-endian value of the size bytes written last from address a on
LastValue(a, size) ==
    [i \in 1..(size \div 2) |->
        LastByte(a + 2 * (i - 1)) + 256 * LastByte(a + 2 * (i - 1) + 1)]

\* one successful access, as C14 describes it
C14_Step ==
    /\ (call'.op \in {"set_word", "set_double_word"} /\ call'.ok) =>
           \A x \in DOMAIN mem \cup DOMAIN mem'
                    \cup (AddrOf(call'.address)..(AddrOf(call'.address) + 7)) :
               MemByte(mem', x) =
                   IF /\ x >= AddrOf(call'.address)
                      /\ x < AddrOf(call'.address) + AccessSize(call')
                   THEN ByteOf(call'.data, x - AddrOf(call'.address))
                   ELSE MemByte(mem, x)
    /\ (call'.op \in {"get_word", "get_double_word"} /\ call'.ok) =>
           /\ call'.data = LastValue(AddrOf(call'.address), AccessSize(call'))
           /\ (/\ last.store.op = "set_double_word"
               /\ call'.op = "get_double_word"
               /\ last.store.address = call'.address) =>
                   call'.data = last.store.data
           /\ (/\ last.store.op = "set_word"
               /\ call'.op = "get_word"
               /\ last.store.address = call'.address) =>
                   call'.data = SubSeq(last.store.data, 1, 2)

\* C14: set_double_word(a, v) followed by get_double_word(a) returns v and
\* set_word(a, v) followed by get_word(a) returns v mod 2^32, at aligned
\* and unaligned addresses; a store changes only the bytes a..a+size-1,
\* which become the bytes of v in little-endian order; a load returns the
\* little-endian composition of the bytes written last at each of its
\* addresses.
C14_LittleEndianViews == [][C14_Step]_vars

\* a double word stored at the unaligned address 1 over an earlier store has
\* been read back
C14_Witness ==
    /\ call.op = "get_double_word" /\ call.ok
    /\ call.address = U32(1)
    /\ last.store.op = "set_double_word" /\ last.store.address = U32(1)
    /\ nsteps = 2
    /\ call.data = last.store.data

\* address + size <= 2^21, for a 32-bit address
InCapacity(address, size) ==
    /\ address[2] < 32
    /\ address[1] + 65536 * address[2] + size <= 2097152

\* one access, as C15 describes it
C15_Step ==
    (call'.op \in {"set_word", "set_double_word", "get_word", "get_double_word"}
     /\ call' # call) =>
        /\ call'.ok <=> InCapacity(call'.address, AccessSize(call'))
        /\ call'.ok => cpu_pc' # "fatal"
        /\ ~call'.ok => (cpu_pc' = "fatal" /\ mem' = mem)

\* C15: get_word and set_word succeed exactly when address + 4 <= 2^21,
\* get_double_word and set_double_word exactly when address + 8 <= 2^21;
\* every other access is a fatal error and leaves every memory byte as it
\* was.
C15_MemoryBounds == [][C15_Step]_vars

\* a double word store at capacity - 4, where a word fits and a double word
\* does not, has ended the run after an earlier store
C15_Witness ==
    /\ cpu_pc = "fatal"
    /\ call.op = "set_double_word" /\ ~call.ok
    /\ call.address = Hex32(31, 65532)
    /\ DOMAIN mem # {}

-----------------------------------------------------------------------------
(* SpecLoad: init_cpu on a binary file of any size.  A file is its size    *)
(* and its non-zero bytes (a function from their positions); every other   *)
(* byte of the file is zero.                                               *)

\* load_instructions_to_memory on a file of bytes: [ok, mem].  file_size / 4
\* items of 4 bytes are read to mem + i * 4; not ok is the exit on a file
\* larger than the memory.
load_file_to_memory(file) ==
    LET Copy(num_of_instructions) ==
            [x \in {y \in DOMAIN file.bytes : y < num_of_instructions * INSTR_SIZE} |->
                file.bytes[x]]
    IN  IF file.size > NUM_OF_MEMORY_ADDRESS
        THEN [ok |-> FALSE, mem |-> init_memory]
        ELSE [ok |-> TRUE, mem |-> Copy(file.size \div INSTR_SIZE)]

LoadSizes == {0, 1, 3, 4, 5, 6, 7, 8, NUM_OF_MEMORY_ADDRESS - 1,
              NUM_OF_MEMORY_ADDRESS, NUM_OF_MEMORY_ADDRESS + 1,
              NUM_OF_MEMORY_ADDRESS + 4}

LoadPositions == {0, 3, 4, 5, 6, NUM_OF_MEMORY_ADDRESS - 4,
                  NUM_OF_MEMORY_ADDRESS - 1, NUM_OF_MEMORY_ADDRESS}

LoadFiles ==
    UNION {{[size |-> n, bytes |-> [x \in P |-> 171]] :
               P \in SUBSET {x \in LoadPositions : x < n}} : n \in LoadSizes}

InitLoad ==
    /\ AsmIdle
    /\ gen_registers = init_register.gen
    /\ program_counter = init_register.pc
    /\ pstate = init_pstate
    /\ mem = init_memory
    /\ cpu_pc = "off"
    /\ last = [kind |-> "none"]
    /\ nsteps = 0
    /\ call \in [op : {"input"}, file : LoadFiles]

\* init_cpu: load_instructions_to_memory(input_file)
LoadImage ==
    /\ call.op = "input"
    /\ \E r \in {load_file_to_memory(call.file)} :
           /\ mem' = r.mem
           /\ cpu_pc' = IF r.ok THEN "running" ELSE "fatal"
    /\ call' = [call EXCEPT !.op = "done"]
    /\ UNCHANGED <<asm_vars, gen_registers, program_counter, pstate, last, nsteps>>

NextLoad == LoadImage

SpecLoad == InitLoad /\ [][NextLoad]_vars

-----------------------------------------------------------------------------
(* Claims about image loading (checked under SpecLoad) *)

\* byte i of the file
FileByte(file, i) == IF i \in DOMAIN file.bytes THEN file.bytes[i] ELSE 0

\* C16: after loading an image of n bytes, mem[i] is byte i of the image for
\* every i < n, whether n is a multiple of 4 or not, and every byte at or
\* after n is zero; loading fails fatally exactly when n exceeds the
\* capacity.
C16_ImageLoaded ==
    call.op = "done" =>
        IF call.file.size > 2097152 THEN cpu_pc = "fatal"
        ELSE /\ cpu_pc = "running"
             /\ \A i \in LoadPositions \cup DOMAIN mem :
                    MemByte(mem, i) = IF i < call.file.size THEN FileByte(call.file, i)
                                      ELSE 0

-----------------------------------------------------------------------------
(* SpecZr: the register file under register writes and reads made through  *)
(* the accessors of register.c with any index (as the debugger makes       *)
(* them), mixed with instructions that name the zero register.             *)

MaxRegOps == 2

\* get_reg_value_32 / get_reg_value_64 exit on an index above NUM_REGISTERS
get_reg_ok(reg_num) == reg_num <= NUM_REGISTERS

ZrIndices == {0, 1, 30, 31, 32, 33}

ZrValues == {U64(7), Hex64(65535, 65535, 65535, 65535)}

ZrLines == {
    \* movz x1, #5
    << <<"m", "o", "v", "z">>, <<"x", "1">>, <<"#", "5">> >>,
    \* movn x30, #0
    << <<"m", "o", "v", "n">>, <<"x", "3", "0">>, <<"#", "0">> >>,
    \* movz xzr, #7
    << <<"m", "o", "v", "z">>, <<"x", "z", "r">>, <<"#", "7">> >>,
    \* add xzr, x1, x1
    << <<"a", "d", "d">>, <<"x", "z", "r">>, <<"x", "1">>, <<"x", "1">> >>,
    \* subs xzr, x30, x1
    << <<"s", "u", "b", "s">>, <<"x", "z", "r">>, <<"x", "3", "0">>, <<"x", "1">> >>,
    \* adds wzr, w30, #1
    << <<"a", "d", "d", "s">>, <<"w", "z", "r">>, <<"w", "3", "0">>, <<"#", "1">> >>,
    \* orr x0, xzr, x30
    << <<"o", "r", "r">>, <<"x", "0">>, <<"x", "z", "r">>, <<"x", "3", "0">> >>,
    \* madd x1, x1, x1, xzr
    << <<"m", "a", "d", "d">>, <<"x", "1">>, <<"x", "1">>, <<"x", "1">>, <<"x", "z", "r">> >> }

\* the words that the assembler emits for the lines
ZrWords == {AssembleLine(l, 0, hashmap_init, hashmap_init).data : l \in ZrLines}

InitZr ==
    /\ AsmIdle
    /\ gen_registers = init_register.gen
    /\ program_counter = init_register.pc
    /\ pstate = init_pstate
    /\ mem = init_memory
    /\ cpu_pc = "running"
    /\ last = [kind |-> "none"]
    /\ nsteps = 0
    /\ call = [op |-> "none"]

\* set_reg_value(reg_num, value)
RegWrite(reg_num, value) ==
    /\ cpu_pc = "running" /\ nsteps < MaxRegOps
    /\ \E c \in {set_reg_value(CpuRec, reg_num, value)} :
           /\ gen_registers' = c.gen_registers
           /\ cpu_pc' = IF c.status = "ok" THEN "running" ELSE c.status
    /\ call' = [op |-> "set_reg_value", reg_num |-> reg_num, data |-> value]
    /\ nsteps' = nsteps + 1
    /\ UNCHANGED <<asm_vars, program_counter, pstate, mem, last>>

\* get_reg_value_64(reg_num) or get_reg_value_32(reg_num); the value
\* returned is kept in call.data
RegRead(op, reg_num) ==
    /\ cpu_pc = "running"
    /\ call' = [op |-> op, reg_num |-> reg_num,
                data |-> IF ~get_reg_ok(reg_num) THEN U64(0)
                         ELSE IF op = "get_reg_value_64"
                         THEN get_reg_value_64(CpuRec, reg_num)
                         ELSE get_reg_value_32(CpuRec, reg_num)]
    /\ cpu_pc' = IF get_reg_ok(reg_num) THEN "halted" ELSE "fatal"
    /\ UNCHANGED <<asm_vars, gen_registers, program_counter, pstate, mem, last, nsteps>>

\* one iteration of run_cpu's loop on the word inst
ZrExecute(inst) ==
    /\ cpu_pc = "running" /\ nsteps < MaxRegOps
    /\ \E c \in {run_cpu_body(CpuRec, inst)} :
           /\ gen_registers' = c.gen_registers
           /\ program_counter' = c.program_counter
           /\ pstate' = c.pstate
           /\ mem' = c.mem
           /\ cpu_pc' = IF c.status = "ok" THEN "running" ELSE c.status
    /\ call' = [op |-> "exec", word |-> inst]
    /\ nsteps' = nsteps + 1
    /\ UNCHANGED <<asm_vars, last>>

NextZr ==
    \/ \E reg_num \in ZrIndices :
           \/ \E value \in ZrValues : RegWrite(reg_num, value)
           \/ RegRead("get_reg_value_64", reg_num)
           \/ RegRead("get_reg_value_32", reg_num)
    \/ \E inst \in ZrWords : ZrExecute(inst)

SpecZr == InitZr /\ [][NextZr]_vars

-----------------------------------------------------------------------------
(* Claims about the zero register (checked under SpecZr) *)

\* a flag-setting addition or subtraction whose destination is register 31
\* (rd, opc_flag and sf lie at the same bits in ImmArith and RegArith)
ZrFlagSetting(w) ==
    /\ executor_of(w) \in {"exec_imm_arithmetic", "exec_reg_arithmetic"}
    /\ Get(w, "ImmArith", "opc_flag") = 1
    /\ Get(w, "ImmArith", "rd") = 31

\* one register access or instruction, as C17 describes it
C17_Step ==
    /\ (call'.op \in {"get_reg_value_64", "get_reg_value_32"} /\ call' # call) =>
           /\ call'.reg_num = 31 => (cpu_pc' = "halted" /\ IsZeroL(call'.data))
           /\ call'.reg_num > 31 => cpu_pc' = "fatal"
    /\ (call'.op = "set_reg_value" /\ nsteps' = nsteps + 1) =>
           /\ call'.reg_num = 31 =>
                  (cpu_pc' = "running" /\ gen_registers' = gen_registers)
           /\ call'.reg_num > 31 =>
                  (cpu_pc' = "fatal" /\ gen_registers' = gen_registers)
    /\ (call'.op = "exec" /\ nsteps' = nsteps + 1 /\ ZrFlagSetting(call'.word)) =>
           /\ gen_registers' = gen_registers
           /\ pstate' = decode_and_execute(CpuRec,
                            Set(call'.word, "ImmArith", "rd", 0)).pstate

\* C17: reading register index 31 returns 0 in the 32-bit and the 64-bit
\* view after any sequence of instructions and register writes; a write to
\* index 31 changes no register; a flag-setting addition or subtraction with
\* rd = 31 changes no register and sets the flags as the same instruction
\* with an ordinary destination does; reading or writing an index above 31
\* is fatal.
C17_ZeroRegister == [][C17_Step]_vars

\* subs xzr, x30, x1 has run after x30 was written: the flags changed, no
\* register did
C17_Witness ==
    /\ call.op = "exec" /\ ZrFlagSetting(call.word)
    /\ nsteps = 2
    /\ gen_registers[30] # U64(0)
    /\ pstate.negative_flag /\ ~pstate.zero_flag
    /\ gen_registers[0] = U64(0)

-----------------------------------------------------------------------------
(* SpecW32: instructions on W registers, executed on a register file whose *)
(* registers all hold non-zero bits above bit 31, and on a memory whose    *)
(* first bytes are non-zero.                                               *)

MaxW32Steps == 2

\* every register is 0xFFFF8000_000000xx with xx = 8 * i, or every register
\* is 0x00000001_FFFFFFF8
W32Registers == {
    [i \in 0..30 |-> Hex64(65535, 32768, 0, 8 * i)],
    [i \in 0..30 |-> Hex64(0, 1, 65535, 65528)] }

\* the byte at address a is (a % 255) + 1 for a < 512
W32Memory == [a \in 0..511 |-> (a % 255) + 1]

W32Lines == {
    \* add w1, w2, #1
    << <<"a", "d", "d">>, <<"w", "1">>, <<"w", "2">>, <<"#", "1">> >>,
    \* sub w3, w0, #1
    << <<"s", "u", "b">>, <<"w", "3">>, <<"w", "0">>, <<"#", "1">> >>,
    \* adds w1, w2, #0xfff, lsl #12
    << <<"a", "d", "d", "s">>, <<"w", "1">>, <<"w", "2">>, <<"#", "0", "x", "f", "f", "f">>, <<"l", "s", "l">>, <<"#", "1", "2">> >>,
    \* add w1, w2, w3
    << <<"a", "d", "d">>, <<"w", "1">>, <<"w", "2">>, <<"w", "3">> >>,
    \* subs w1, w2, w3, lsl #4
    << <<"s", "u", "b", "s">>, <<"w", "1">>, <<"w", "2">>, <<"w", "3">>, <<"l", "s", "l">>, <<"#", "4">> >>,
    \* sub w0, w1, w2, asr #1
    << <<"s", "u", "b">>, <<"w", "0">>, <<"w", "1">>, <<"w", "2">>, <<"a", "s", "r">>, <<"#", "1">> >>,
    \* and w1, w2, w3
    << <<"a", "n", "d">>, <<"w", "1">>, <<"w", "2">>, <<"w", "3">> >>,
    \* orn w4, w5, w6
    << <<"o", "r", "n">>, <<"w", "4">>, <<"w", "5">>, <<"w", "6">> >>,
    \* eon w1, w2, w3, ror #5
    << <<"e", "o", "n">>, <<"w", "1">>, <<"w", "2">>, <<"w", "3">>, <<"r", "o", "r">>, <<"#", "5">> >>,
    \* bics w30, w2, w3
    << <<"b", "i", "c", "s">>, <<"w", "3", "0">>, <<"w", "2">>, <<"w", "3">> >>,
    \* madd w1, w2, w3, w4
    << <<"m", "a", "d", "d">>, <<"w", "1">>, <<"w", "2">>, <<"w", "3">>, <<"w", "4">> >>,
    \* msub w5, w6, w7, w8
    << <<"m", "s", "u", "b">>, <<"w", "5">>, <<"w", "6">>, <<"w", "7">>, <<"w", "8">> >>,
    \* movn w1, #0
    << <<"m", "o", "v", "n">>, <<"w", "1">>, <<"#", "0">> >>,
    \* movz w2, #5, lsl #16
    << <<"m", "o", "v", "z">>, <<"w", "2">>, <<"#", "5">>, <<"l", "s", "l">>, <<"#", "1", "6">> >>,
    \* movk w3, #7
    << <<"m", "o", "v", "k">>, <<"w", "3">>, <<"#", "7">> >>,
    \* movk w3, #7, lsl #16
    << <<"m", "o", "v", "k">>, <<"w", "3">>, <<"#", "7">>, <<"l", "s", "l">>, <<"#", "1", "6">> >>,
    \* ldr w1, [x2]
    << <<"l", "d", "r">>, <<"w", "1">>, <<"[", "x", "2", "]">> >>,
    \* ldr w1, [x2, #16]
    << <<"l", "d", "r">>, <<"w", "1">>, <<"[", "x", "2">>, <<"#", "1", "6", "]">> >>,
    \* ldr w1, [x2, x3]
    << <<"l", "d", "r">>, <<"w", "1">>, <<"[", "x", "2">>, <<"x", "3", "]">> >>,
    \* ldr w1, #0x20
    << <<"l", "d", "r">>, <<"w", "1">>, <<"#", "0", "x", "2", "0">> >>,
    \* ldr w1, [x2, #16]!
    << <<"l", "d", "r">>, <<"w", "1">>, <<"[", "x", "2">>, <<"#", "1", "6", "]", "!">> >>,
    \* ldr w2, [x2, #-8]!
    << <<"l", "d", "r">>, <<"w", "2">>, <<"[", "x", "2">>, <<"#", "-", "8", "]", "!">> >>,
    \* ldr w1, [x2], #8
    << <<"l", "d", "r">>, <<"w", "1">>, <<"[", "x", "2", "]">>, <<"#", "8">> >>,
    \* ldr w3, [x2], #-32
    << <<"l", "d", "r">>, <<"w", "3">>, <<"[", "x", "2", "]">>, <<"#", "-", "3", "2">> >>,
    \* ldr w1, [x1], #-16
    << <<"l", "d", "r">>, <<"w", "1">>, <<"[", "x", "1", "]">>, <<"#", "-", "1", "6">> >>,
    \* str w1, [x2], #8
    << <<"s", "t", "r">>, <<"w", "1">>, <<"[", "x", "2", "]">>, <<"#", "8">> >> }

\* the words that the assembler emits for the lines
W32Words == {AssembleLine(l, 0, hashmap_init, hashmap_init).data : l \in W32Lines}

InitW32 ==
    /\ AsmIdle
    /\ gen_registers \in W32Registers
    /\ program_counter = init_register.pc
    /\ pstate = init_pstate
    /\ mem = W32Memory
    /\ cpu_pc = "running"
    /\ last = [kind |-> "none"]
    /\ nsteps = 0
    /\ call = [op |-> "none"]

\* one iteration of run_cpu's loop on the word inst
W32Execute(inst) ==
    /\ cpu_pc = "running" /\ nsteps < MaxW32Steps
    /\ \E c \in {run_cpu_body(CpuRec, inst)} :
           /\ gen_registers' = c.gen_registers
           /\ program_counter' = c.program_counter
           /\ pstate' = c.pstate
           /\ mem' = c.mem
           /\ cpu_pc' = IF c.status = "ok" THEN "running" ELSE c.status
    /\ call' = [op |-> "exec", word |-> inst]
    /\ nsteps' = nsteps + 1
    /\ UNCHANGED <<asm_vars, last>>

NextW32 == \E inst \in W32Words : W32Execute(inst)

SpecW32 == InitW32 /\ [][NextW32]_vars

-----------------------------------------------------------------------------
(* Claims about 32-bit register writes (checked under SpecW32) *)

\* the executor of w is a data transfer (sf is bit 30, the target is rt)
W32IsTransfer(w) ==
    executor_of(w) \in {"exec_dt_load_literal", "exec_dt_imm_offset",
                        "exec_dt_reg_offset", "exec_dt_pre_index",
                        "exec_dt_post_index"}

\* the executor of w is a data processing one (sf is bit 31, the target is rd)
W32IsProcessing(w) ==
    executor_of(w) \in {"exec_imm_arithmetic", "exec_wide_move",
                        "exec_reg_multiply", "exec_reg_arithmetic",
                        "exec_reg_logic"}

\* the register that w writes as its destination
W32Dest(w) ==
    IF W32IsTransfer(w) THEN Get(w, "DTImmOffset", "rt")
    ELSE Get(w, "ImmArith", "rd")

\* w is executed with sf = 0 and writes a destination register in 0..30
W32Writes(w) ==
    /\ W32Dest(w) < NUM_REGISTERS
    /\ \/ W32IsProcessing(w) /\ Get(w, "ImmArith", "sf") = 0
       \/ /\ W32IsTransfer(w) /\ Get(w, "DTImmOffset", "sf") = 0
          /\ \/ executor_of(w) = "exec_dt_load_literal"
             \/ Get(w, "DTImmOffset", "L") = 1

\* w is a post-index load whose target register is also its base register
W32PostIndexOnTarget(w) ==
    /\ executor_of(w) = "exec_dt_post_index"
    /\ Get(w, "DTPrePostIndex", "rt") = Get(w, "DTPrePostIndex", "xn")

\* bits 63..32 of a 64-bit value are zero
HighZero(v) == v[3] = 0 /\ v[4] = 0

\* the instruction just executed wrote a W register
W32Wrote ==
    /\ call'.op = "exec" /\ nsteps' = nsteps + 1 /\ cpu_pc' = "running"
    /\ W32Writes(call'.word)

C18_StepAll == W32Wrote => HighZero(gen_registers'[W32Dest(call'.word)])

C18_Step ==
    (W32Wrote /\ ~W32PostIndexOnTarget(call'.word)) =>
        HighZero(gen_registers'[W32Dest(call'.word)])

\* C18 (as stated): every instruction executed with sf = 0 that writes a
\* destination register rd/rt in 0..30 (immediate or register arithmetic,
\* logic, multiply, movn/movz/movk, 32-bit loads in every addressing mode)
\* leaves bits 63..32 of that register equal to zero.
C18_ZeroExtend == [][C18_StepAll]_vars

\* C18 (amended): the same, except for a post-index load whose target rt is
\* also its base register xn, where the write-back to xn follows the load.
C18_ZeroExtendOtherBase == [][C18_Step]_vars

\* ldr w3, [x2], #-32 has run on registers whose upper halves were non-zero:
\* W3 holds the word at 16, zero-extended, and X2 was written back
C18_Witness ==
    /\ call.op = "exec" /\ nsteps = 1 /\ cpu_pc = "running"
    /\ executor_of(call.word) = "exec_dt_post_index"
    /\ W32Writes(call.word) /\ W32Dest(call.word) = 3
    /\ gen_registers[3] = Hex64(0, 0, 5139, 4625)
    /\ ~HighZero(gen_registers[2])
    /\ ~HighZero(gen_registers[4])

-----------------------------------------------------------------------------
(* SpecIdx: pre-index and post-index transfers executed one after another  *)
(* from the reset register file and from register files whose base         *)
(* register holds 0x100, 8 or 0x1_0000_0100; last records the register     *)
(* file at the start and the words executed since.                         *)

MaxIdxSteps == 4

\* movz x1, #0x100 ; movz x0, #0x42 ; str x0, [x1, #8]! ; ldr x2, [x1]
IdxProgram == <<
    << <<"m", "o", "v", "z">>, <<"x", "1">>, <<"#", "0", "x", "1", "0", "0">> >>,
    << <<"m", "o", "v", "z">>, <<"x", "0">>, <<"#", "0", "x", "4", "2">> >>,
    << <<"s", "t", "r">>, <<"x", "0">>, <<"[", "x", "1">>, <<"#", "8", "]", "!">> >>,
    << <<"l", "d", "r">>, <<"x", "2">>, <<"[", "x", "1", "]">> >> >>

IdxLines == {IdxProgram[i] : i \in 1..Len(IdxProgram)} \cup {
    \* ldr x2, [x1], #-16
    << <<"l", "d", "r">>, <<"x", "2">>, <<"[", "x", "1", "]">>, <<"#", "-", "1", "6">> >>,
    \* str x0, [x1], #8
    << <<"s", "t", "r">>, <<"x", "0">>, <<"[", "x", "1", "]">>, <<"#", "8">> >>,
    \* ldr w2, [x1, #-8]!
    << <<"l", "d", "r">>, <<"w", "2">>, <<"[", "x", "1">>, <<"#", "-", "8", "]", "!">> >>,
    \* str w0, [x1, #4]!
    << <<"s", "t", "r">>, <<"w", "0">>, <<"[", "x", "1">>, <<"#", "4", "]", "!">> >> }

WordOfLine(l) == AssembleLine(l, 0, hashmap_init, hashmap_init).data

IdxWords == {WordOfLine(l) : l \in IdxLines}

\* X0 = 0xAABBCCDD11223344 and X1 = 0x100, 8 or 0x1_0000_0100
IdxRegisters == {init_register.gen} \cup
    {[init_register.gen EXCEPT ![0] = Hex64(43707, 52445, 4386, 13124), ![1] = b] :
         b \in {U64(256), U64(8), Hex64(0, 1, 0, 256)}}

InitIdx ==
    /\ AsmIdle
    /\ gen_registers \in IdxRegisters
    /\ program_counter = init_register.pc
    /\ pstate = init_pstate
    /\ mem = W32Memory
    /\ cpu_pc = "running"
    /\ last = [kind |-> "run", start |-> gen_registers, words |-> << >>]
    /\ nsteps = 0
    /\ call = [op |-> "none"]

\* one iteration of run_cpu's loop on the word inst
IdxExecute(inst) ==
    /\ cpu_pc = "running" /\ nsteps < MaxIdxSteps
    /\ \E c \in {run_cpu_body(CpuRec, inst)} :
           /\ gen_registers' = c.gen_registers
           /\ program_counter' = c.program_counter
           /\ pstate' = c.pstate
           /\ mem' = c.mem
           /\ cpu_pc' = IF c.status = "ok" THEN "running" ELSE c.status
    /\ call' = [op |-> "exec", word |-> inst]
    /\ last' = [last EXCEPT !.words = Append(@, inst)]
    /\ nsteps' = nsteps + 1
    /\ UNCHANGED asm_vars

NextIdx == \E inst \in IdxWords : IdxExecute(inst)

SpecIdx == InitIdx /\ [][NextIdx]_vars

-----------------------------------------------------------------------------
(* Claims about pre-index and post-index addressing (checked under SpecIdx) *)

IsPreIndex(w) == executor_of(w) = "exec_dt_pre_index"
IsPostIndex(w) == executor_of(w) = "exec_dt_post_index"

\* xn + sign_extend(simm9, 9) as a 64-bit value, in the state before
IdxSum(w) ==
    PlusL(get_reg_value_64(CpuRec, Get(w, "DTPrePostIndex", "xn")),
          Int64(sign_extend(Get(w, "DTPrePostIndex", "simm9"), 9)))

\* the address of the access: the sum for pre-index, the old xn for post-index
IdxAddress(w) ==
    IF IsPreIndex(w) THEN IdxSum(w)
    ELSE get_reg_value_64(CpuRec, Get(w, "DTPrePostIndex", "xn"))

\* the number of bytes of the register view that w transfers
IdxSize(w) == IF Get(w, "DTPrePostIndex", "sf") = 1 THEN 8 ELSE 4

\* a 64-bit address at which size bytes lie within the memory
InMemory64(a, size) == a[3] = 0 /\ a[4] = 0 /\ InCapacity(Trunc32(a), size)

\* the bytes of the memory afterwards at a .. a + size - 1 as a 64-bit value
IdxAfterAt(a, size) == ZExt64(LimbsAt(mem', AddrOf(Trunc32(a)), size \div 2))
IdxBeforeAt(a, size) == ZExt64(LimbsAt(mem, AddrOf(Trunc32(a)), size \div 2))

\* the view of rt that a store of size bytes transfers
IdxView(v, size) == IF size = 8 THEN v ELSE ZExt64(Trunc32(v))

\* the transfer of w happened at the 64-bit address a, and xn holds sum
IdxDone(w, rt, xn, L, a, size, sum) ==
    IF ~InMemory64(a, size) THEN cpu_pc' = "fatal"
    ELSE /\ cpu_pc' = "running"
         /\ (L = 0 \/ rt # xn) => gen_registers'[xn] = sum
         /\ (L = 1 /\ ~(IsPostIndex(w) /\ rt = xn)) =>
                gen_registers'[rt] = IdxBeforeAt(a, size)
         /\ (L = 0 /\ rt # xn) =>
                IdxAfterAt(a, size) = IdxView(gen_registers[rt], size)

\* one pre-index or post-index transfer, as C19 describes it
C19_Step ==
    (/\ call'.op = "exec" /\ nsteps' = nsteps + 1
     /\ IsPreIndex(call'.word) \/ IsPostIndex(call'.word)) =>
        IdxDone(call'.word, Get(call'.word, "DTPrePostIndex", "rt"),
                Get(call'.word, "DTPrePostIndex", "xn"),
                Get(call'.word, "DTPrePostIndex", "L"),
                IdxAddress(call'.word), IdxSize(call'.word), IdxSum(call'.word))

\* the four instructions of IdxProgram have run from the reset register file
IdxProgramRan ==
    /\ last.start = init_register.gen
    /\ last.words = [i \in 1..Len(IdxProgram) |-> WordOfLine(IdxProgram[i])]

IdxProgramResult ==
    /\ cpu_pc = "running"
    /\ gen_registers[1] = U64(264)
    /\ gen_registers[2] = U64(66)
    /\ get_double_word(mem, U32(264)) = U64(66)

\* C19: a pre-index transfer writes addr = xn + sign_extend(simm9, 9), as a
\* 64-bit value, back to xn and performs the access at addr; a post-index
\* transfer performs the access at the old xn and afterwards sets xn to
\* old xn + sign_extend(simm9, 9); in particular movz x1,#0x100;
\* movz x0,#0x42; str x0,[x1,#8]!; ldr x2,[x1] ends with X1 = 0x108,
\* X2 = 0x42 and the doubleword at 0x108 equal to 0x42.
C19_PrePostIndex == [][C19_Step]_vars /\ [](IdxProgramRan => IdxProgramResult)

-----------------------------------------------------------------------------
(* SpecStep: the debugger's entry point step_instruction, called up to     *)
(* MaxStepCalls times on the emulator state that init_cpu leaves for an    *)
(* assembled program; call holds the fetched word and the value returned.  *)

MaxStepCalls == 4

\* an increment of the program counter after every word, branches included
StepAdvancePcAlways(c, inst) == increment_pc(c)

\* if (inst.gen_branch.op0 != ITP_BRANCH) increment_pc();
StepAdvancePc(c, inst) ==
    IF Get(inst, "GeneralBranch", "op0") # ITP_BRANCH THEN increment_pc(c) ELSE c

\* step_instruction: the state afterwards, the fetched word inst and the
\* value returned (ret, meaningful when the process was not ended)
step_instruction(c) ==
    LET After(c1, inst) ==
            IF c1.status # "ok" THEN c1 ELSE StepAdvancePc(c1, inst)
        Step(inst) ==
            [c |-> After(decode_and_execute(c, inst), inst), inst |-> inst,
             ret |-> inst # HALT_INSTRUCTION]
    IN  IF ~fetch_ok(c) THEN [c |-> Fatal(c), inst |-> U32(0), ret |-> FALSE]
        ELSE Step(fetch(c))

StepInstruction ==
    /\ cpu_pc = "running" /\ nsteps < MaxStepCalls
    /\ \E r \in {step_instruction(CpuRec)} :
           /\ gen_registers' = r.c.gen_registers
           /\ program_counter' = r.c.program_counter
           /\ pstate' = r.c.pstate
           /\ mem' = r.c.mem
           /\ cpu_pc' = IF r.c.status = "ok" THEN "running" ELSE r.c.status
           /\ call' = [op |-> "step_instruction", word |-> r.inst, ret |-> r.ret]
    /\ nsteps' = nsteps + 1
    /\ UNCHANGED <<asm_vars, last>>

NextStep == StepInstruction

SpecStep == InitCpu /\ [][NextStep]_vars

-----------------------------------------------------------------------------
(* Claims about step_instruction (checked under SpecStep) *)

\* the emulator state afterwards is the state c
StepGives(c) ==
    /\ gen_registers' = c.gen_registers
    /\ program_counter' = c.program_counter
    /\ pstate' = c.pstate
    /\ mem' = c.mem
    /\ (cpu_pc' = "running") = (c.status = "ok")

\* one call of step_instruction with the program counter inside the memory
C20_Step ==
    (nsteps' = nsteps + 1 /\ fetch_ok(CpuRec)) =>
        /\ call'.op = "step_instruction"
        /\ call'.word = fetch(CpuRec)
        /\ StepGives(run_cpu_body(CpuRec, fetch(CpuRec)))
        /\ cpu_pc' = "running" =>
               (call'.ret = FALSE <=> fetch(CpuRec) = HALT_INSTRUCTION)

\* C20: step_instruction performs exactly one fetch/decode/execute step of
\* the word at the current PC, with the PC-advance rule of the loop driver
\* (PC + 4 unless the word is in the branch group), and returns false exactly
\* when the fetched word is 0x8A000000 and true otherwise.
C20_StepInstruction == [][C20_Step]_vars

\* movz x0, #5 ; and x0, x0, x0 stepped twice: the second call fetched the
\* halt word, returned false, and left the PC after it
C20_Witness ==
    /\ call = [op |-> "step_instruction", word |-> HALT_INSTRUCTION, ret |-> FALSE]
    /\ nsteps = 2
    /\ gen_registers[0] = U64(5)
    /\ program_counter = U64(8)
    /\ cpu_pc = "running"

-----------------------------------------------------------------------------
(* SpecLab: the assembler decoding up to MaxLines lines of AsmLines, with  *)
(* the line handed to decode kept in call.                                 *)

\* for_each_line_in_file: decode on the next line of the file
LabDecode(line) ==
    /\ asm_pc = "decoding"
    /\ nlines < MaxLines
    /\ \E st \in {decode(AsmState, line)} :
           /\ instructions' = st.instructions
           /\ current_address' = st.current_address
           /\ labels' = st.labels
           /\ addresses' = st.addresses
           /\ asm_pc' = IF st.ok THEN "decoding" ELSE "fatal"
    /\ nlines' = nlines + 1
    /\ call' = [op |-> "decode", line |-> line]
    /\ UNCHANGED cpu_vars

NextLab == \E line \in AsmLines : LabDecode(line)

SpecLab == InitAsm /\ [][NextLab]_vars

-----------------------------------------------------------------------------
(* Claims about label definitions (checked under SpecLab) *)

\* the name that a label line defines
LabelOfLine(line) == CutAt(line[1], Len(line[1]) - 1)

\* the line just decoded defines a label that is defined already
LabDefinedAgain ==
    /\ nlines' = nlines + 1
    /\ is_label(call'.line[1])
    /\ LabelOfLine(call'.line) \in DOMAIN labels

\* the emitted words that refer to the label k, as recorded in addresses
LabReferences(k) ==
    IF k \in DOMAIN addresses
    THEN {(addresses[k][i] \div INSTR_SIZE) + 1 : i \in 1..Len(addresses[k])}
    ELSE {}

\* one decode call, as C21 describes it
C21_Step ==
    /\ LabDefinedAgain =>
           (asm_pc' = "fatal" /\ labels' = labels /\ instructions' = instructions)
    /\ \A k \in DOMAIN labels :
           /\ k \in DOMAIN labels' /\ labels'[k] = labels[k]
           /\ \A i \in LabReferences(k) : instructions'[i] = instructions[i]

\* C21: a second definition of an already defined label name is a fatal
\* error; no step overwrites the stored address of a defined label or
\* patches again an emitted word that refers to it.
C21_DuplicateLabels == [][C21_Step]_vars

\* b end ; end: ; end: -- the second definition ended the process, the word
\* patched at the first definition and the address of end are as they were
C21_Witness ==
    /\ asm_pc = "fatal" /\ nlines = 3
    /\ call = [op |-> "decode", line |-> << <<"e", "n", "d", ":">> >>]
    /\ labels = [k \in {tok_end} |-> 4]
    /\ addresses = [k \in {tok_end} |-> <<0>>]
    /\ instructions = <<Hex32(5120, 1)>>

-----------------------------------------------------------------------------
(* SpecHalt: one instruction line is assembled after the prologue of       *)
(* SpecEnc, and run_cpu's test of a fetched word is made on the word       *)
(* emitted.  HaltLines holds the logic instructions on x0, x1, x30 and xzr *)
(* in every combination, and x0, x0, x0 under every other opcode and with  *)
(* shifts; EncLines adds the lines of every other instruction group.       *)

HaltRegs == {tok_x0, tok_x1, <<"x", "3", "0">>, <<"x", "z", "r">>}

HaltOpcodes == {<<"a", "n", "d">>, <<"a", "n", "d", "s">>, <<"b", "i", "c">>,
                <<"b", "i", "c", "s">>, <<"o", "r", "r">>, <<"o", "r", "n">>,
                <<"e", "o", "r">>, <<"e", "o", "n">>}

HaltShifts == {
    << <<"l", "s", "l">>, <<"#", "0">> >>, << <<"l", "s", "l">>, <<"#", "1">> >>,
    << <<"l", "s", "l">>, <<"#", "6", "3">> >>, << <<"l", "s", "r">>, <<"#", "0">> >>,
    << <<"a", "s", "r">>, <<"#", "0">> >>, << <<"r", "o", "r">>, <<"#", "0">> >> }

HaltLines ==
    {<<o, a, b, c>> : o \in HaltOpcodes, a \in HaltRegs, b \in HaltRegs, c \in HaltRegs}
    \cup {HaltLine \o s : s \in HaltShifts}
    \cup {<<o, tok_x0, tok_x0, tok_x0>> :
              o \in {<<"a", "d", "d">>, <<"a", "d", "d", "s">>, <<"s", "u", "b">>,
                     <<"s", "u", "b", "s">>}}
    \cup {<<o, tok_x0, tok_x0, tok_x0, tok_x0>> :
              o \in {<<"m", "a", "d", "d">>, <<"m", "s", "u", "b">>}}
    \cup {<<o, tok_x0, tok_x0, tok_x0>> :
              o \in {<<"m", "u", "l">>, <<"m", "n", "e", "g">>}}
    \cup {<<o, <<"w", "0">>, <<"w", "0">>, <<"w", "0">> >> : o \in HaltOpcodes}
    \cup {<<o, tok_x0, <<"#", "0">> >> :
              o \in {<<"m", "o", "v", "z">>, <<"m", "o", "v", "k">>, <<"m", "o", "v", "n">>}}
    \cup {<<o, tok_x0, tok_x0>> :
              o \in {<<"m", "o", "v">>, <<"m", "v", "n">>, <<"t", "s", "t">>,
                     <<"c", "m", "p">>, <<"c", "m", "n">>, <<"n", "e", "g">>}}
    \cup {<<o, tok_x0, <<"[", "x", "0", "]">> >> :
              o \in {<<"l", "d", "r">>, <<"s", "t", "r">>}}
    \cup {<< <<"b", "r">>, tok_x0 >>, << <<"b">>, tok_end >>,
          << <<"b", ".", "e", "q">>, tok_end >>, << <<"l", "d", "r">>, tok_x0, tok_end >>}
    \cup EncLines

\* run_cpu: while ((inst = fetch()).data != HALT_INSTRUCTION), on the word
\* just emitted
HaltCompare ==
    /\ call.op = "encoded"
    /\ call.ok
    /\ call' = [call EXCEPT !.op = "compared",
                            !.executor = IF call.word = HALT_INSTRUCTION
                                         THEN "halt" ELSE "decode_and_execute"]
    /\ UNCHANGED <<asm_vars, cpu_vars>>

NextHalt == (\E line \in HaltLines : EncodeLine(line)) \/ HaltCompare

SpecHalt == InitEnc /\ [][NextHalt]_vars

-----------------------------------------------------------------------------
(* Claims about the halt sentinel (checked under SpecHalt) *)

\* and x0, x0, x0 with its shift lsl #0 written out
HaltLineShifted == HaltLine \o << <<"l", "s", "l">>, <<"#", "0">> >>

\* and x0, x0, x0 is assembled to 0x8A000000, and run_cpu stops on it
HaltAgrees ==
    /\ (call.op \in {"encoded", "compared"} /\ call.line = HaltLine) =>
           (call.ok /\ call.word = Hex32(35328, 0))
    /\ (call.op = "compared" /\ call.line = HaltLine) => call.executor = "halt"

-----------------------------------------------------------------------------
(* hashmap.c as it is implemented: an array of num_buckets chains of items *)
(* [key, value], head first.  A value is a non-zero int standing for the   *)
(* pointer stored; HM_NULL stands for the NULL pointer.                    *)

INITIAL_NUM_BUCKETS == 32
HM_NULL == 0

\* the character codes of the digits
CharCode(ch) == 48 + DigitVal(ch)

\* hash * 33 + c in uint64_t, which is ((hash << 5) + hash) + c
HashStep(hash, c) ==
    LET Limbs(t1, h2, h3, h4) ==
            LET Rest(t2, g3, g4) ==
                    LET Last(t3, k4) ==
                            <<t1 % LIMB, t2 % LIMB, t3 % LIMB,
                              (k4 * 33 + t3 \div LIMB) % LIMB>>
                    IN  Last(g3 * 33 + t2 \div LIMB, g4)
            IN  Rest(h2 * 33 + t1 \div LIMB, h3, h4)
    IN  Limbs(hash[1] * 33 + c, hash[2], hash[3], hash[4])

\* get_hash: hash = 0x1505, then hash = ((hash << 5) + hash) + c for every
\* character of the key
RECURSIVE get_hash_from(_, _)
get_hash_from(hash, key) ==
    IF key = << >> THEN hash
    ELSE get_hash_from(HashStep(hash, CharCode(Head(key))), Tail(key))

get_hash(key) == get_hash_from(U64(5381), key)

\* get_hash(key) & (num_buckets - 1), for a power of two up to 2^16
bucket_index(hmap, key) == get_hash(key)[1] % hmap.num_buckets

create_new_buckets(size) == [i \in 0..(size - 1) |-> << >>]

\* an item that forgets the chain it is put in front of
item_init_alone(key, value, next) == <<[key |-> key, value |-> value]>>

\* item_init(key, value, next): the chain that starts with the new item
item_init(key, value, next) == <<[key |-> key, value |-> value]>> \o next

\* item_list_get_item: the position of the first item with the key, 0 for NULL
item_list_get_item(head, key) ==
    IF \E i \in 1..Len(head) : head[i].key = key
    THEN CHOOSE i \in 1..Len(head) :
             head[i].key = key /\ \A j \in 1..(i - 1) : head[j].key # key
    ELSE 0

hmap_init == [buckets |-> create_new_buckets(INITIAL_NUM_BUCKETS), size |-> 0,
              num_buckets |-> INITIAL_NUM_BUCKETS]

\* resize_if_necessary: size < num_buckets * LOAD_FACTOR (0.75) keeps the
\* buckets; otherwise every item, bucket after bucket and head first, is put
\* at the beginning of its chain among twice as many buckets
hmap_resize_if_necessary(hmap) ==
    LET Chain(items, at, index) ==
            LET r[k \in 0..Len(items)] ==
                    IF k = 0 THEN << >>
                    ELSE IF at[k] = index THEN <<items[k]>> \o r[k-1]
                    ELSE r[k-1]
            IN  r[Len(items)]
        All(n) ==
            LET r[i \in 0..n] ==
                    IF i = 0 THEN << >> ELSE r[i-1] \o hmap.buckets[i-1]
            IN  r[n]
        Reinsert(doubled, items) ==
            LET Put(at) ==
                    [doubled EXCEPT !.buckets =
                         [i \in 0..(doubled.num_buckets - 1) |->
                              Chain(items, at, i)]]
            IN  Put([k \in 1..Len(items) |->
                         bucket_index(doubled, items[k].key)])
    IN  IF 4 * hmap.size < 3 * hmap.num_buckets THEN hmap
        ELSE Reinsert([hmap EXCEPT !.num_buckets = 2 * @],
                      All(hmap.num_buckets))

hmap_contains(hmap, key) ==
    item_list_get_item(hmap.buckets[bucket_index(hmap, key)], key) # 0

hmap_get(hmap, key) ==
    LET Value(head, i) == IF i # 0 THEN head[i].value ELSE HM_NULL
        In(head) == Value(head, item_list_get_item(head, key))
    IN  In(hmap.buckets[bucket_index(hmap, key)])

\* hashmap_set: [hmap, ret]
hmap_set(hmap, key, value) ==
    LET Added(index) ==
            [hmap EXCEPT !.buckets[index] = item_init(key, value, @),
                         !.size = @ + 1]
        Run(index, head, i) ==
            IF head = << >> \/ i = 0
            THEN [hmap |-> hmap_resize_if_necessary(Added(index)), ret |-> HM_NULL]
            ELSE [hmap |-> [hmap EXCEPT !.buckets[index][i].value = value],
                  ret |-> head[i].value]
        At(index) ==
            Run(index, hmap.buckets[index],
                item_list_get_item(hmap.buckets[index], key))
    IN  At(bucket_index(hmap, key))

hmap_size(hmap) == hmap.size

\* hashmap_remove: [hmap, ret]
hmap_remove(hmap, key) ==
    LET Without(head, i) == SubSeq(head, 1, i - 1) \o SubSeq(head, i + 1, Len(head))
        Run(index, head, i) ==
            IF head = << >> \/ i = 0 THEN [hmap |-> hmap, ret |-> HM_NULL]
            ELSE [hmap |-> [hmap EXCEPT !.buckets[index] = Without(head, i),
                                        !.size = @ - 1],
                  ret |-> head[i].value]
        At(index) ==
            Run(index, hmap.buckets[index],
                item_list_get_item(hmap.buckets[index], key))
    IN  At(bucket_index(hmap, key))

hmap_clear(hmap) == hmap_init

-----------------------------------------------------------------------------
(* SpecHm: a HashMap under hashmap_set, hashmap_remove and hashmap_clear.  *)
(* The keys are the decimal strings of 0 .. MaxHmKeys - 1, as in the unit  *)
(* test.  The keys of HmHot are set, set again and removed at any time     *)
(* ("11" and "20" share a bucket until the resize); the other keys are     *)
(* added in increasing order, so that the size passes the load factor.     *)
(* labels holds the HashMap, last.map the map it stands for.               *)

MaxHmKeys == 25

HmKeys == {DecimalOf(n) : n \in 0..(MaxHmKeys - 1)}

\* the numbers of the keys "0", "11" and "20"
HmHot == {0, 11, 20}

\* the number of the key that is not hot and is added next: the least one
\* whose key is not in the map
HmNextCold(map) ==
    {n \in (0..(MaxHmKeys - 1)) \ HmHot :
        /\ DecimalOf(n) \notin DOMAIN map
        /\ \A j \in (0..(n - 1)) \ HmHot : DecimalOf(j) \in DOMAIN map}

InitHm ==
    /\ instructions = decode_init.instructions
    /\ current_address = decode_init.current_address
    /\ labels = hmap_init
    /\ addresses = decode_init.addresses
    /\ asm_pc = "decoding"
    /\ nlines = 0
    /\ gen_registers = init_register.gen
    /\ program_counter = init_register.pc
    /\ pstate = init_pstate
    /\ mem = init_memory
    /\ cpu_pc = "off"
    /\ nsteps = 0
    /\ last = [map |-> hashmap_init]
    /\ call = [op |-> "none"]

\* hashmap_set(hmap, key, value)
HmSet(key, value) ==
    /\ asm_pc = "decoding"
    /\ \E r \in {hmap_set(labels, key, value)} :
           /\ labels' = r.hmap
           /\ call' = [op |-> "hashmap_set", key |-> key, value |-> value,
                       ret |-> r.ret]
    /\ last' = [map |-> hashmap_set(last.map, key, value)]
    /\ UNCHANGED <<instructions, current_address, addresses, asm_pc, nlines,
                   gen_registers, program_counter, pstate, mem, cpu_pc, nsteps>>

\* hashmap_remove(hmap, key)
HmRemove(key) ==
    /\ asm_pc = "decoding"
    /\ \E r \in {hmap_remove(labels, key)} :
           /\ labels' = r.hmap
           /\ call' = [op |-> "hashmap_remove", key |-> key, value |-> HM_NULL,
                       ret |-> r.ret]
    /\ last' = [map |-> [k \in DOMAIN last.map \ {key} |-> last.map[k]]]
    /\ UNCHANGED <<instructions, current_address, addresses, asm_pc, nlines,
                   gen_registers, program_counter, pstate, mem, cpu_pc, nsteps>>

\* hashmap_clear(hmap)
HmClear ==
    /\ asm_pc = "decoding"
    /\ labels' = hmap_clear(labels)
    /\ call' = [op |-> "hashmap_clear", key |-> NULL, value |-> HM_NULL,
                ret |-> HM_NULL]
    /\ last' = [map |-> hashmap_init]
    /\ UNCHANGED <<instructions, current_address, addresses, asm_pc, nlines,
                   gen_registers, program_counter, pstate, mem, cpu_pc, nsteps>>

\* a key is set to 100 + its number, a hot key also to 200 + its number
NextHm ==
    \/ \E n \in HmHot \cup HmNextCold(last.map) : HmSet(DecimalOf(n), 100 + n)
    \/ \E n \in HmHot : HmSet(DecimalOf(n), 200 + n)
    \/ \E n \in HmHot : HmRemove(DecimalOf(n))
    \/ HmClear

SpecHm == InitHm /\ [][NextHm]_vars

-----------------------------------------------------------------------------
(* Claims about the HashMap (checked under SpecHm) *)

\* the value of key in the map m, HM_NULL when it has none
HmLookup(m, key) == IF key \in DOMAIN m THEN m[key] ELSE HM_NULL

\* hashmap_get, hashmap_contains and hashmap_size answer as the map does
HmAnswers ==
    /\ \A key \in HmKeys :
           /\ hmap_get(labels, key) = HmLookup(last.map, key)
           /\ hmap_contains(labels, key) = (key \in DOMAIN last.map)
    /\ hmap_size(labels) = Cardinality(DOMAIN last.map)

\* hashmap_set and hashmap_remove return the value the key had
C23_Step ==
    /\ call'.op \in {"hashmap_set", "hashmap_remove"} =>
           call'.ret = HmLookup(last.map, call'.key)
    /\ call'.op = "hashmap_clear" => hmap_size(labels') = 0

\* C23: after any sequence of hashmap_set, hashmap_remove and hashmap_clear,
\* across bucket resizes: hashmap_set returns the previous value of the key
\* (NULL if none), hashmap_get returns the latest value set for a present
\* key and NULL for an absent one, hashmap_remove returns the removed value
\* and NULL on a second removal, and hashmap_size is the number of distinct
\* keys present (0 after clear).
C23_HashMapIsMap == []HmAnswers /\ [][C23_Step]_vars

\* "11" was set, set again and, after the resize to 64 buckets, removed:
\* the value set last was returned and 24 keys remain
C23_Witness ==
    /\ call = [op |-> "hashmap_remove", key |-> <<"1", "1">>, value |-> HM_NULL,
               ret |-> 211]
    /\ labels.num_buckets = 64
    /\ labels.size = 24
    /\ hmap_get(labels, <<"2", "0">>) = 120

-----------------------------------------------------------------------------
(* darray.c as it is implemented: an array of capacity slots of which the  *)
(* first length hold the elements.  An element is a positive int standing  *)
(* for the pointer stored; DA_UNINIT marks a slot that malloc or realloc   *)
(* handed out and nothing was written to, whose contents are               *)
(* indeterminate.  Slots are numbered from 0.                              *)

INITIAL_CAPACITY == 10
DA_UNINIT == -1

darray_init ==
    [array |-> [i \in 0..(INITIAL_CAPACITY - 1) |-> DA_UNINIT], length |-> 0,
     capacity |-> INITIAL_CAPACITY]

\* check_index_in_bounds: the assertion index >= 0 && index < da->length
check_index_in_bounds(da, index) == index >= 0 /\ index < da.length

\* a reallocation that hands out fresh slots only
darray_resize_fresh(da) ==
    IF da.length = da.capacity
    THEN [da EXCEPT !.capacity = 2 * @,
                    !.array = [i \in 0..(2 * da.capacity - 1) |-> DA_UNINIT]]
    ELSE da

\* resize_if_necessary: length == capacity doubles the capacity; realloc
\* keeps the slots there were
darray_resize_if_necessary(da) ==
    IF da.length = da.capacity
    THEN [da EXCEPT !.capacity = 2 * @,
                    !.array = [i \in 0..(2 * da.capacity - 1) |->
                                   IF i < da.capacity THEN da.array[i]
                                   ELSE DA_UNINIT]]
    ELSE da

\* darray_get, after check_index_in_bounds
darray_get(da, index) == da.array[index]

\* darray_add: da->array[da->length++] = element after resize_if_necessary
darray_add(da, element) ==
    LET Put(d) == [d EXCEPT !.array[d.length] = element, !.length = @ + 1]
    IN  Put(darray_resize_if_necessary(da))

\* darray_set, after check_index_in_bounds (the element replaced is freed)
darray_set(da, index, element) == [da EXCEPT !.array[index] = element]

darray_length(da) == da.length

\* darray_index_of with a cmpf that compares the elements: the first index
\* below length, -1 if there is none
darray_index_of(da, element) ==
    IF \E i \in 0..(da.length - 1) : da.array[i] = element
    THEN CHOOSE i \in 0..(da.length - 1) :
             da.array[i] = element /\ \A j \in 0..(i - 1) : da.array[j] # element
    ELSE -1

\* darray_remove, after check_index_in_bounds: [da, ret]; memmove copies the
\* length - index slots after index one slot down
darray_remove(da, index) ==
    [da |-> [da EXCEPT !.length = @ - 1,
                       !.array = [i \in 0..(da.capacity - 1) |->
                                      IF i >= index /\ i < da.length - 1
                                      THEN da.array[i + 1] ELSE da.array[i]]],
     ret |-> da.array[index]]

\* darray_clear: the elements are freed, the slots keep their contents
darray_clear(da) == [da EXCEPT !.length = 0]

\* an iterator that stops one call early
darray_iterator_early(da, i) == [i |-> i + 1, ret |-> da.length # i + 1]

\* darray_iterator: *pelement = da->array[(*i)++]; return da->length != *i - 1
\* gives [i, ret]; the element read is one of darray_iterator_element
darray_iterator(da, i) == [i |-> i + 1, ret |-> da.length # i]

\* the elements a read of slot i can give to the build: the contents of a slot
\* that was written; any of DaIndeterminate for a slot never written and for
\* the slot after the last (i = capacity), which is outside the allocation
DaIndeterminate == {0, 3}

darray_iterator_element(da, i) ==
    IF i < da.capacity /\ da.array[i] # DA_UNINIT THEN {da.array[i]}
    ELSE DaIndeterminate

-----------------------------------------------------------------------------
(* SpecDa: a DArray under darray_add, darray_set, darray_remove,           *)
(* darray_clear and loops over darray_iterator as in write_to_binray_file. *)
(* instructions holds the DArray, nlines the int the iterator advances,    *)
(* last.seq the sequence the array stands for and last.yielded the         *)
(* elements the running loop was given.  An element added at an index of    *)
(* DaFront is any of DaElements, one added further up is of DaFiller.      *)

MaxDaLen == 12
DaFront == {0, 1}
DaElements == {1, 2}
DaFiller == {3}

\* the indices used: the front, the last element, and both sides out of bounds
DaIndices(da) == {-1} \cup DaFront \cup {da.length - 1, da.length}

\* the indices darray_set is called with
DaSetIndices(da) == {-1, 0, da.length}

InitDa ==
    /\ instructions = darray_init
    /\ current_address = decode_init.current_address
    /\ labels = decode_init.labels
    /\ addresses = decode_init.addresses
    /\ asm_pc = "decoding"
    /\ nlines = 0
    /\ gen_registers = init_register.gen
    /\ program_counter = init_register.pc
    /\ pstate = init_pstate
    /\ mem = init_memory
    /\ cpu_pc = "off"
    /\ nsteps = 0
    /\ last = [seq |-> << >>, yielded |-> << >>]
    /\ call = [op |-> "none"]

\* what no DArray operation touches
DaRest == <<current_address, labels, addresses, gen_registers, program_counter,
            pstate, mem, cpu_pc, nsteps>>

\* the assertion of check_index_in_bounds failed
DaAbort(op, index) ==
    /\ asm_pc' = "aborted"
    /\ call' = [op |-> "abort", in |-> op, index |-> index, element |-> 0,
                ret |-> 0]
    /\ UNCHANGED <<instructions, nlines, last>>

\* darray_add(da, element)
DaAdd(element) ==
    /\ asm_pc = "decoding"
    /\ instructions.length < MaxDaLen
    /\ instructions' = darray_add(instructions, element)
    /\ last' = [last EXCEPT !.seq = Append(@, element)]
    /\ call' = [op |-> "darray_add", index |-> 0, element |-> element,
                ret |-> 0]
    /\ UNCHANGED <<asm_pc, nlines>>
    /\ UNCHANGED DaRest

\* darray_set(da, index, element)
DaSet(index, element) ==
    /\ asm_pc = "decoding"
    /\ IF check_index_in_bounds(instructions, index)
       THEN /\ instructions' = darray_set(instructions, index, element)
            /\ last' = [last EXCEPT !.seq[index + 1] = element]
            /\ call' = [op |-> "darray_set", index |-> index,
                        element |-> element, ret |-> 0]
            /\ UNCHANGED <<asm_pc, nlines>>
       ELSE DaAbort("darray_set", index)
    /\ UNCHANGED DaRest

\* darray_remove(da, index)
DaRemove(index) ==
    /\ asm_pc = "decoding"
    /\ IF check_index_in_bounds(instructions, index)
       THEN /\ \E r \in {darray_remove(instructions, index)} :
                   /\ instructions' = r.da
                   /\ call' = [op |-> "darray_remove", index |-> index,
                               element |-> 0, ret |-> r.ret]
            /\ last' = [last EXCEPT !.seq = SubSeq(@, 1, index)
                                               \o SubSeq(@, index + 2, Len(@))]
            /\ UNCHANGED <<asm_pc, nlines>>
       ELSE DaAbort("darray_remove", index)
    /\ UNCHANGED DaRest

\* darray_clear(da)
DaClear ==
    /\ asm_pc = "decoding"
    /\ instructions' = darray_clear(instructions)
    /\ last' = [last EXCEPT !.seq = << >>]
    /\ call' = [op |-> "darray_clear", index |-> 0, element |-> 0, ret |-> 0]
    /\ UNCHANGED <<asm_pc, nlines>>
    /\ UNCHANGED DaRest

\* write_to_binray_file: int index = 0 before the loop
DaLoop ==
    /\ asm_pc = "decoding"
    /\ asm_pc' = "iterating"
    /\ nlines' = 0
    /\ last' = [last EXCEPT !.yielded = << >>]
    /\ call' = [op |-> "loop", index |-> 0, element |-> 0, ret |-> 0]
    /\ UNCHANGED instructions
    /\ UNCHANGED DaRest

\* while (darray_iterator(da, &index, &pelement)): one call; the loop body
\* is given the element when the call returns true, and the loop ends when it
\* returns false
DaIterator ==
    /\ asm_pc = "iterating"
    /\ \E r \in {darray_iterator(instructions, nlines)} :
       \E element \in darray_iterator_element(instructions, nlines) :
           /\ nlines' = r.i
           /\ call' = [op |-> "darray_iterator", index |-> nlines,
                       element |-> element, ret |-> r.ret]
           /\ last' = [last EXCEPT !.yielded =
                           IF r.ret THEN Append(@, element) ELSE @]
           /\ asm_pc' = IF r.ret THEN "iterating" ELSE "decoding"
    /\ UNCHANGED instructions
    /\ UNCHANGED DaRest

NextDa ==
    \/ \E element \in DaElements :
           /\ instructions.length \in DaFront
           /\ DaAdd(element)
    \/ \E element \in DaFiller :
           /\ instructions.length \notin DaFront
           /\ DaAdd(element)
    \/ \E index \in DaSetIndices(instructions) :
       \E element \in DaElements : DaSet(index, element)
    \/ \E index \in DaIndices(instructions) : DaRemove(index)
    \/ DaClear
    \/ DaLoop
    \/ DaIterator

SpecDa == InitDa /\ [][NextDa]_vars

-----------------------------------------------------------------------------
(* Claims about the DArray (checked under SpecDa) *)

\* the first index of element in the sequence s, counted from 0; -1 if none
DaFirst(s, element) ==
    IF \E k \in 1..Len(s) : s[k] = element
    THEN (CHOOSE k \in 1..Len(s) :
              s[k] = element /\ \A j \in 1..(k - 1) : s[j] # element) - 1
    ELSE -1

\* darray_length, darray_get and darray_index_of answer as the sequence does
DaAnswers ==
    /\ darray_length(instructions) = Len(last.seq)
    /\ \A index \in 0..(Len(last.seq) - 1) :
           /\ check_index_in_bounds(instructions, index)
           /\ darray_get(instructions, index) = last.seq[index + 1]
    /\ \A element \in DaElements \cup DaFiller \cup {4} :
           darray_index_of(instructions, element) = DaFirst(last.seq, element)

\* darray_add makes the array one longer, darray_remove one shorter and
\* returns the element that was at the index, darray_clear leaves length 0
C24_Step ==
    /\ call'.op = "darray_add" =>
           /\ darray_length(instructions') = darray_length(instructions) + 1
           /\ darray_get(instructions', darray_length(instructions)) = call'.element
    /\ call'.op = "darray_remove" =>
           /\ call'.ret = last.seq[call'.index + 1]
           /\ darray_length(instructions') = darray_length(instructions) - 1
    /\ call'.op = "darray_clear" => darray_length(instructions') = 0

\* C24: across capacity doublings the DArray is a sequence: darray_add
\* appends (length + 1), darray_get(i) is the element at index i,
\* darray_set(i, e) replaces only index i, darray_remove(i) returns element
\* i, makes the length one less and moves the later elements one index down
\* in order, darray_index_of is the first matching index or -1, and
\* darray_clear leaves length 0.
C24_DArrayIsSequence == []DaAnswers /\ [][C24_Step]_vars

\* index 0 was removed from an array that had grown to 20 slots: the later
\* elements moved down
C24_Witness ==
    /\ call.op = "darray_remove" /\ call.index = 0 /\ call.ret = 2
    /\ instructions.capacity = 2 * INITIAL_CAPACITY
    /\ instructions.length = 11
    /\ last.seq = <<1, 3, 3, 3, 3, 3, 3, 3, 3, 3, 3>>

\* one call of the iterator in a loop that started at index 0
C25_Step ==
    call'.op = "darray_iterator" =>
        /\ call'.ret = (Len(last.yielded) < Len(last.seq))
        /\ nlines' = Len(last.yielded) + 1
        /\ call'.ret => /\ call'.element = last.seq[nlines']
                        /\ last'.yielded = SubSeq(last.seq, 1, nlines')
        /\ ~call'.ret => last'.yielded = last.seq

\* C25: starting from index 0, repeated calls of darray_iterator return true
\* exactly length times, yield the elements 0 .. length - 1 in order with
\* *i = yielded index + 1 after each call, and the next call returns false
\* (no iteration at all for an empty array).
C25_Iterator == [][C25_Step]_vars

\* a loop over a full array of INITIAL_CAPACITY elements ended: the call
\* that returned false read the slot after the last one
C25_Witness ==
    /\ call.op = "darray_iterator" /\ call.ret = FALSE
    /\ call.index = INITIAL_CAPACITY
    /\ instructions.capacity = INITIAL_CAPACITY
    /\ last.yielded = last.seq /\ Len(last.seq) = INITIAL_CAPACITY

\* a loop over an empty array ended with its first call
C25_WitnessEmpty ==
    /\ call.op = "darray_iterator" /\ call.ret = FALSE /\ call.index = 0
    /\ last.yielded = << >>

-----------------------------------------------------------------------------
(* SpecEmit: decode on the lines of a file of at most MaxLines lines drawn *)
(* from EmitLines: the lines of AsmLines and .int directives.              *)

EmitLines ==
    AsmLines \cup
    { << <<".", "i", "n", "t">>, <<"0", "x", "1", "0">> >>,   \* .int 0x10
      << <<".", "i", "n", "t">>, <<"7">> >>,                  \* .int 7
      << <<".", "i", "n", "t">> >> }                          \* .int

NextEmit == \E line \in EmitLines : LabDecode(line)

SpecEmit == InitAsm /\ [][NextEmit]_vars

-----------------------------------------------------------------------------
(* Claims about the emitted words and the emit address (checked under      *)
(* SpecEmit)                                                               *)

\* the encodings that refer to a label: b (top six bits 000101), b.cond
\* (top byte 0x54) and the load literal (top byte 0x18 or 0x58)
IsReferringWord(w) == IsUncondWord(w) \/ w[2] \div 256 \in {84, 24, 88}

\* the addresses recorded for the label l in the map addresses
RecordedFor(l) == Range(addresses[l])

\* C26: after each completed decode() call every address recorded in the
\* pending map is smaller than 4 * N, N the number of emitted words, and the
\* word at that address is a branch or load-literal encoding whose
\* displacement field is zero.
C26_PendingInvariant ==
    asm_pc = "decoding" =>
        \A l \in DOMAIN addresses : \A a \in RecordedFor(l) :
            /\ a < 4 * Len(instructions)
            /\ IsReferringWord(instructions[a \div 4 + 1])
            /\ DispOf(instructions[a \div 4 + 1]) = 0

\* the same for the labels that are not defined yet
C26_UndefinedPending ==
    asm_pc = "decoding" =>
        \A l \in DOMAIN addresses \ DOMAIN labels : \A a \in RecordedFor(l) :
            /\ a < 4 * Len(instructions)
            /\ IsReferringWord(instructions[a \div 4 + 1])
            /\ DispOf(instructions[a \div 4 + 1]) = 0

\* what a completed call of decode did to the words and the emit address
C27_Step ==
    (call'.op = "decode" /\ asm_pc' = "decoding") =>
        IF is_label(call'.line[1])
        THEN /\ Len(instructions') = Len(instructions)
             /\ current_address' = current_address
             /\ LabelOfLine(call'.line) \in DOMAIN labels'
             /\ labels'[LabelOfLine(call'.line)] = current_address
        ELSE /\ instructions' = Append(instructions, instructions'[Len(instructions')])
             /\ current_address' = current_address + 4

\* C27: after every decode() call the emit address is 4 times the number of
\* emitted words; an instruction or .int line appends exactly one word and
\* adds 4; a label line appends no word, leaves the address unchanged and
\* records the label at exactly that address.
C27_EmitAddress ==
    [](current_address = 4 * Len(instructions)) /\ [][C27_Step]_vars

\* .int 0x10 was emitted as the word 0x10 at address 0, and end: recorded
\* at address 4 without emitting a word
C27_Witness ==
    /\ call = [op |-> "decode", line |-> << <<"e", "n", "d", ":">> >>]
    /\ asm_pc = "decoding"
    /\ instructions = << U32(16) >>
    /\ current_address = 4
    /\ labels = hashmap_set(hashmap_init, tok_end, 4)

-----------------------------------------------------------------------------
(* SpecRun: run_cpu on the image of any file of up to MaxRunLen lines of   *)
(* RunLines, with or without a halt instruction in it; the memory after    *)
(* the image is zero.  call.trace holds the program counters of the words  *)
(* executed, call.branched whether one of them was of the branch group.    *)
(* The loop is the only thing the process does, so an iteration that can   *)
(* be made is made: SpecRunFair.                                           *)

MaxRunLen == 3

\* no run without a branch takes more iterations than this
MaxRunSteps == MaxRunLen + 2

RunLines == {
    HaltLine,
    \* movz x0, #5
    << <<"m", "o", "v", "z">>, <<"x", "0">>, <<"#", "5">> >>,
    \* movn x1, #0
    << <<"m", "o", "v", "n">>, <<"x", "1">>, <<"#", "0">> >>,
    \* ldr x3, [x1]
    << <<"l", "d", "r">>, <<"x", "3">>, <<"[", "x", "1", "]">> >>,
    \* br x1
    << <<"b", "r">>, <<"x", "1">> >> }

RunPrograms == UNION {[1..n -> RunLines] : n \in 0..MaxRunLen}

\* main of assemble.c on a program, then init_cpu on the file it wrote
InitRun ==
    \E prog \in RunPrograms :
        \E st \in {decode_all(decode_init, prog)} :
            /\ st.ok
            /\ instructions = st.instructions
            /\ current_address = st.current_address
            /\ labels = st.labels
            /\ addresses = st.addresses
            /\ asm_pc = "written"
            /\ nlines = Len(prog)
            /\ gen_registers = init_register.gen
            /\ program_counter = init_register.pc
            /\ pstate = init_pstate
            /\ mem = load_instructions_to_memory(st.instructions)
            /\ cpu_pc = "running"
            /\ last = [kind |-> "none"]
            /\ nsteps = 0
            /\ call = [branched |-> FALSE, trace |-> << >>]

\* run_cpu: one iteration of the loop on a word that is not HALT_INSTRUCTION
RunExecute ==
    /\ cpu_pc = "running"
    /\ nsteps < MaxRunSteps
    /\ fetch_ok(CpuRec)
    /\ \E inst \in {fetch(CpuRec)} :
           /\ inst # HALT_INSTRUCTION
           /\ \E c \in {run_cpu_body(CpuRec, inst)} :
                  /\ gen_registers' = c.gen_registers
                  /\ program_counter' = c.program_counter
                  /\ pstate' = c.pstate
                  /\ mem' = c.mem
                  /\ cpu_pc' = IF c.status = "ok" THEN "running" ELSE c.status
           /\ last' = [kind |-> "exec", word |-> inst, pc |-> program_counter]
           /\ call' = [branched |-> call.branched \/ is_branch(inst),
                       trace |-> Append(call.trace, program_counter)]
    /\ nsteps' = nsteps + 1
    /\ UNCHANGED asm_vars

NextRun == Halt \/ FetchFault \/ RunExecute

SpecRun == InitRun /\ [][NextRun]_vars

SpecRunFair == SpecRun /\ WF_vars(NextRun)

-----------------------------------------------------------------------------
(* Claims about runs without branches (checked under SpecRunFair) *)

\* run_cpu has returned or the process has ended
RunStopped == cpu_pc \in {"halted", "fatal"}

\* an iteration on a word outside the branch group that did not end the
\* process adds 4 to the program counter
C28_Step ==
    (last'.kind = "exec" /\ nsteps' = nsteps + 1 /\ ~is_branch(last'.word)
        /\ cpu_pc' = "running") =>
        program_counter' = PlusL(program_counter, U64(4))

\* when the run stopped at the halt instruction without a branch, the words
\* before it were executed once each, in address order
RunInOrder ==
    (cpu_pc = "halted" /\ ~call.branched) =>
        /\ program_counter = U64(4 * Len(call.trace))
        /\ \A k \in 1..Len(call.trace) : call.trace[k] = U64(4 * (k - 1))

\* C28: from any loaded image, if no instruction of the branch group is ever
\* executed, run_cpu eventually stops (the first HALT is reached, or a fatal
\* decode or bounds error ends the process), because the PC increases by 4
\* with every instruction; when it stops at HALT, every word before it was
\* executed exactly once, in address order.
C28_Termination ==
    /\ <>(RunStopped \/ call.branched)
    /\ [][C28_Step]_vars
    /\ []RunInOrder

\* movz x0, #5 and movn x1, #0 were executed and the run stopped at the halt
\* instruction at address 8
C28_Witness ==
    /\ cpu_pc = "halted" /\ ~call.branched
    /\ call.trace = <<U64(0), U64(4)>>
    /\ program_counter = U64(8)
    /\ gen_registers[0] = U64(5)

\* a file without a halt instruction: the run ended at the zero word after
\* the image
C28_WitnessNoHalt ==
    /\ cpu_pc = "fatal" /\ ~call.branched
    /\ Len(instructions) = 2
    /\ call.trace = <<U64(0), U64(4), U64(8)>>
    /\ last.word = U32(0)

-----------------------------------------------------------------------------
(* SpecCond: one iteration of run_cpu's loop on a b.cond word, for every   *)
(* condition code of the enum, displacements at both ends of simm19, all   *)
(* sixteen values of the flags, and registers and memory that are not      *)
(* zero.  call keeps the fields of the word and the PC before.             *)

CondCodes == {ITP_EQ, ITP_NE, ITP_GE, ITP_LT, ITP_GT, ITP_LE, ITP_AL}

\* simm19: 0, 1, 2, 2^18 - 1, -2^18, -2, -1
CondDisplacements == {0, 1, 2, 262143, 262144, 524286, 524287}

CondAddresses == {0, 8, 1048576}

\* the word 0x54000000 with the fields simm19 (bits 5..23) and cond (bits 0..3)
CondWord(simm19, cond) == U32(1409286144 + simm19 * 32 + cond)

CondCalls == [op : {"input"}, cond : CondCodes, simm19 : CondDisplacements,
              pc : CondAddresses]

InitCond ==
    /\ AsmIdle
    /\ call \in CondCalls
    /\ gen_registers = [init_register.gen EXCEPT ![1] = U64(7), ![30] = U64(9)]
    /\ program_counter = U64(call.pc)
    /\ pstate \in BrFlags
    /\ mem = set_word(init_memory, U32(16), U32(305419896))
    /\ cpu_pc = "off"
    /\ last = [kind |-> "none"]
    /\ nsteps = 0

\* run_cpu: the iteration on the b.cond word fetched at PC
CondExecute ==
    /\ call.op = "input"
    /\ \E c \in {run_cpu_body(CpuRec, CondWord(call.simm19, call.cond))} :
           /\ gen_registers' = c.gen_registers
           /\ program_counter' = c.program_counter
           /\ pstate' = c.pstate
           /\ mem' = c.mem
           /\ cpu_pc' = IF c.status = "ok" THEN "off" ELSE c.status
    /\ call' = [call EXCEPT !.op = "done"]
    /\ last' = [kind |-> "exec", word |-> CondWord(call.simm19, call.cond),
                pc |-> program_counter]
    /\ UNCHANGED <<asm_vars, nsteps>>

NextCond == CondExecute

SpecCond == InitCond /\ [][NextCond]_vars

-----------------------------------------------------------------------------
(* Claims about b.cond (checked under SpecCond) *)

\* the condition of the code holds on the flags p
CondHolds(cond, p) ==
    CASE cond = ITP_EQ -> p.zero_flag
      [] cond = ITP_NE -> ~p.zero_flag
      [] cond = ITP_GE -> p.negative_flag = p.overflow_flag
      [] cond = ITP_LT -> p.negative_flag # p.overflow_flag
      [] cond = ITP_GT -> ~p.zero_flag /\ p.negative_flag = p.overflow_flag
      [] cond = ITP_LE -> p.zero_flag \/ p.negative_flag # p.overflow_flag
      [] cond = ITP_AL -> TRUE

\* PC + 4 * sign_extend(simm19, 19) in 64 bits
CondTarget(pc, simm19) ==
    IF simm19 < 262144 THEN PlusL(pc, U64(4 * simm19))
    ELSE MinusL(pc, U64(4 * (524288 - simm19)))

C29_Step ==
    call'.op = "done" =>
        /\ cpu_pc' = "off"
        /\ program_counter' =
               IF CondHolds(call.cond, pstate)
               THEN CondTarget(program_counter, call.simm19)
               ELSE PlusL(program_counter, U64(4))
        /\ pstate' = pstate
        /\ gen_registers' = gen_registers
        /\ mem' = mem

\* C29: b.cond is taken exactly when the condition holds on the current
\* PState (EQ: Z; NE: not Z; GE: N = V; LT: N != V; GT: not Z and N = V;
\* LE: Z or N != V; AL: always); taken, the PC becomes
\* PC + 4 * sign_extend(simm19, 19), otherwise PC + 4; PState, registers and
\* memory are unchanged in both cases.
C29_ConditionalBranch == [][C29_Step]_vars

\* b.le with simm19 = -2 at PC = 8, taken because Z is set (N = V): PC = 0
C29_Witness ==
    /\ call = [op |-> "done", cond |-> ITP_LE, simm19 |-> 524286, pc |-> 8]
    /\ pstate = [negative_flag |-> FALSE, zero_flag |-> TRUE,
                 carry_flag |-> FALSE, overflow_flag |-> FALSE]
    /\ program_counter = U64(0)
    /\ gen_registers[30] = U64(9)

\* b.le not taken: PC = 12
C29_WitnessNotTaken ==
    /\ call = [op |-> "done", cond |-> ITP_LE, simm19 |-> 524286, pc |-> 8]
    /\ pstate = [negative_flag |-> TRUE, zero_flag |-> FALSE,
                 carry_flag |-> FALSE, overflow_flag |-> TRUE]
    /\ program_counter = U64(12)

-----------------------------------------------------------------------------
(* SpecShift: apply_shift_32 and apply_shift_64 on every shift amount      *)
(* 0 .. 63 that the six-bit operand field holds.  A shift of a w-bit value *)
(* by w or more is undefined in C.  The build (gcc without optimisation)   *)
(* compiles it to the shift instruction of the machine, which takes the    *)
(* count modulo w on x86-64 and AArch64; a machine or a compiler that      *)
(* saturates gives 0 (the sign bits for the arithmetic shift).  Both are   *)
(* outcomes of such a shift here.                                          *)

ShiftZero(w) == [i \in 1..(w \div 16) |-> 0]

\* operand << n, operand >> n (unsigned) and operand >> n (signed) at width w
ShlOutcomes(operand, n, w) ==
    IF n < w THEN {ShlL(operand, n)} ELSE {ShlL(operand, n % w), ShiftZero(w)}
ShrOutcomes(operand, n, w) ==
    IF n < w THEN {ShrL(operand, n)} ELSE {ShrL(operand, n % w), ShiftZero(w)}
AsrOutcomes(operand, n, w) ==
    IF n < w THEN {AsrL(operand, n)}
    ELSE {AsrL(operand, n % w), AsrL(operand, w - 1)}

\* the count CONST_w - shift of the rotation, a uint32_t: for shift > w it
\* wraps to 2^32 - (shift - w); a count of at least w with the same residue
\* modulo w stands for it
RorLeftCount(shift, w) ==
    IF shift <= w THEN w - shift ELSE w + ((2 * w - shift) % w)

\* the values apply_shift_32 (w = 32) or apply_shift_64 (w = 64) can return
apply_shift_outcomes(w, operand, shift, shift_option) ==
    IF shift_defined(w, shift, shift_option)
    THEN {IF w = CONST_32 THEN apply_shift_32(operand, shift, shift_option)
          ELSE apply_shift_64(operand, shift, shift_option)}
    ELSE CASE shift_option = ITP_LSL -> ShlOutcomes(operand, shift, w)
           [] shift_option = ITP_LSR -> ShrOutcomes(operand, shift, w)
           [] shift_option = ITP_ASR -> AsrOutcomes(operand, shift, w)
           [] shift_option = ITP_ROR ->
                  {OrL(a, b) : a \in ShrOutcomes(operand, shift, w),
                               b \in ShlOutcomes(operand, RorLeftCount(shift, w), w)}

\* 1, 0x7FFFFFFF, 0x80000000, 0x80000001, 0xDEADBEEF, 0xFFFFFFFF
ShiftOperands32 ==
    {Hex32(0, 1), Hex32(32767, 65535), Hex32(32768, 0), Hex32(32768, 1),
     Hex32(57005, 48879), Hex32(65535, 65535)}

\* 1, 0x7FFF..FF, 0x8000..00, 0x8000..01, 0x0123456789ABCDEF, 0xFFFF..FF
ShiftOperands64 ==
    {Hex64(0, 0, 0, 1), Hex64(32767, 65535, 65535, 65535), Hex64(32768, 0, 0, 0),
     Hex64(32768, 0, 0, 1), Hex64(291, 17767, 35243, 52719),
     Hex64(65535, 65535, 65535, 65535)}

ShiftCalls ==
    [op : {"input"}, w : {CONST_32}, operand : ShiftOperands32, shift : 0..63,
     shift_option : {ITP_LSL, ITP_LSR, ITP_ASR, ITP_ROR}, result : {U32(0)}]
    \cup
    [op : {"input"}, w : {CONST_64}, operand : ShiftOperands64, shift : 0..63,
     shift_option : {ITP_LSL, ITP_LSR, ITP_ASR, ITP_ROR}, result : {U32(0)}]

InitShift ==
    /\ AsmIdle
    /\ CpuIdle
    /\ nsteps = 0
    /\ call \in ShiftCalls

\* apply_shift_32(operand, shift, shift_option), or apply_shift_64
ShiftApply ==
    /\ call.op = "input"
    /\ \E result \in apply_shift_outcomes(call.w, call.operand, call.shift,
                                          call.shift_option) :
           call' = [call EXCEPT !.op = "done", !.result = result]
    /\ UNCHANGED <<asm_vars, cpu_vars, nsteps>>

NextShift == ShiftApply

SpecShift == InitShift /\ [][NextShift]_vars

-----------------------------------------------------------------------------
(* Claims about the shifts (checked under SpecShift) *)

\* result is operand shifted left, or right, by amount places, zeros coming in
IsLogicalLeft(result, operand, amount, w) ==
    \A i \in 0..(w - 1) :
        BitL(result, i) = IF i >= amount THEN BitL(operand, i - amount) ELSE 0
IsLogicalRight(result, operand, amount, w) ==
    \A i \in 0..(w - 1) :
        BitL(result, i) = IF i + amount < w THEN BitL(operand, i + amount) ELSE 0

\* every bit of result is the sign bit of operand
IsSignFill(result, operand, w) ==
    \A i \in 0..(w - 1) : BitL(result, i) = BitL(operand, w - 1)

\* result is operand rotated right by amount mod w places
IsRotation(result, operand, amount, w) ==
    \A i \in 0..(w - 1) : BitL(result, i) = BitL(operand, (i + (amount % w)) % w)

\* what the claim says of the value returned
ShiftAsClaimed(k) ==
    /\ k.shift_option = ITP_LSL => IsLogicalLeft(k.result, k.operand, k.shift, k.w)
    /\ k.shift_option = ITP_LSR => IsLogicalRight(k.result, k.operand, k.shift, k.w)
    /\ (k.shift_option = ITP_ASR /\ k.shift = k.w - 1) =>
           IsSignFill(k.result, k.operand, k.w)
    /\ k.shift_option = ITP_ROR => IsRotation(k.result, k.operand, k.shift, k.w)

\* C30: at width w in {32, 64}, for every encodable amount 0 .. 63: LSL and
\* LSR are logical shifts and LSL by 0 is the identity, LSR and ASR by w - 1
\* keep a single bit of the operand, ASR of a negative value by w - 1 gives
\* all ones, and ROR rotates right by amount mod w, so that ROR by 0 and, at
\* 32 bits, ROR by 32 return the operand unchanged.
C30_ShiftSemantics == call.op = "done" => ShiftAsClaimed(call)

\* the same for the shifts of fewer than w places, and for the rotations by
\* 0 and by w, whose undefined part does not reach the value returned
C30_DefinedAmounts ==
    (/\ call.op = "done"
     /\ \/ call.shift < call.w
        \/ call.shift_option = ITP_ROR /\ call.shift = call.w) =>
        ShiftAsClaimed(call)

-----------------------------------------------------------------------------
(* SpecFlag: one iteration of run_cpu's loop on the word of a line of      *)
(* FlagLines, which has every group of instructions in it, from each of    *)
(* the sixteen values of the flags and from registers whose values are     *)
(* negative at one width only, cancel each other, or are zero.             *)

FlagLines == {
    \* add x1, x2, #5
    << <<"a", "d", "d">>, <<"x", "1">>, <<"x", "2">>, <<"#", "5">> >>,
    \* adds w3, w1, #1
    << <<"a", "d", "d", "s">>, <<"w", "3">>, <<"w", "1">>, <<"#", "1">> >>,
    \* sub w1, w2, w3
    << <<"s", "u", "b">>, <<"w", "1">>, <<"w", "2">>, <<"w", "3">> >>,
    \* subs x3, x1, x2
    << <<"s", "u", "b", "s">>, <<"x", "3">>, <<"x", "1">>, <<"x", "2">> >>,
    \* cmp x1, x2
    << <<"c", "m", "p">>, <<"x", "1">>, <<"x", "2">> >>,
    \* and x3, x1, x2
    << <<"a", "n", "d">>, <<"x", "3">>, <<"x", "1">>, <<"x", "2">> >>,
    \* bic w3, w1, w2
    << <<"b", "i", "c">>, <<"w", "3">>, <<"w", "1">>, <<"w", "2">> >>,
    \* orr x3, x1, x2
    << <<"o", "r", "r">>, <<"x", "3">>, <<"x", "1">>, <<"x", "2">> >>,
    \* eor w3, w1, w2
    << <<"e", "o", "r">>, <<"w", "3">>, <<"w", "1">>, <<"w", "2">> >>,
    \* eon x3, x1, x2
    << <<"e", "o", "n">>, <<"x", "3">>, <<"x", "1">>, <<"x", "2">> >>,
    \* orn x3, x1, x2
    << <<"o", "r", "n">>, <<"x", "3">>, <<"x", "1">>, <<"x", "2">> >>,
    \* ands x3, x1, x2
    << <<"a", "n", "d", "s">>, <<"x", "3">>, <<"x", "1">>, <<"x", "2">> >>,
    \* ands w3, w1, w2
    << <<"a", "n", "d", "s">>, <<"w", "3">>, <<"w", "1">>, <<"w", "2">> >>,
    \* ands x3, x1, x2, lsr #4
    << <<"a", "n", "d", "s">>, <<"x", "3">>, <<"x", "1">>, <<"x", "2">>, <<"l", "s", "r">>, <<"#", "4">> >>,
    \* bics x3, x1, x2
    << <<"b", "i", "c", "s">>, <<"x", "3">>, <<"x", "1">>, <<"x", "2">> >>,
    \* bics w3, w1, w2
    << <<"b", "i", "c", "s">>, <<"w", "3">>, <<"w", "1">>, <<"w", "2">> >>,
    \* tst x1, x2
    << <<"t", "s", "t">>, <<"x", "1">>, <<"x", "2">> >>,
    \* tst w1, w1
    << <<"t", "s", "t">>, <<"w", "1">>, <<"w", "1">> >>,
    \* madd x3, x1, x2, x1
    << <<"m", "a", "d", "d">>, <<"x", "3">>, <<"x", "1">>, <<"x", "2">>, <<"x", "1">> >>,
    \* msub w3, w1, w2, w1
    << <<"m", "s", "u", "b">>, <<"w", "3">>, <<"w", "1">>, <<"w", "2">>, <<"w", "1">> >>,
    \* movz x3, #5
    << <<"m", "o", "v", "z">>, <<"x", "3">>, <<"#", "5">> >>,
    \* movn w3, #0
    << <<"m", "o", "v", "n">>, <<"w", "3">>, <<"#", "0">> >>,
    \* movk x1, #0
    << <<"m", "o", "v", "k">>, <<"x", "1">>, <<"#", "0">> >>,
    \* ldr x3, [x0, #16]
    << <<"l", "d", "r">>, <<"x", "3">>, <<"[", "x", "0">>, <<"#", "1", "6", "]">> >>,
    \* ldr w3, [x0], #8
    << <<"l", "d", "r">>, <<"w", "3">>, <<"[", "x", "0", "]">>, <<"#", "8">> >>,
    \* ldr x3, [x1]
    << <<"l", "d", "r">>, <<"x", "3">>, <<"[", "x", "1", "]">> >>,
    \* str x1, [x0, #16]
    << <<"s", "t", "r">>, <<"x", "1">>, <<"[", "x", "0">>, <<"#", "1", "6", "]">> >>,
    \* str w1, [x0, #8]!
    << <<"s", "t", "r">>, <<"w", "1">>, <<"[", "x", "0">>, <<"#", "8", "]", "!">> >>,
    \* b end
    << <<"b">>, <<"e", "n", "d">> >>,
    \* b.eq end
    << <<"b", ".", "e", "q">>, <<"e", "n", "d">> >>,
    \* br x0
    << <<"b", "r">>, <<"x", "0">> >> }

FlagWords == {WordOfLine(l) : l \in FlagLines}

\* X1 = 0x0000000080000001 and X2 all ones; X1 = 0x8000000000000000 and
\* X2 = 0x7FFFFFFF00000000; all zero
FlagRegisters ==
    {[init_register.gen EXCEPT ![1] = Hex64(0, 0, 32768, 1),
                               ![2] = Hex64(65535, 65535, 65535, 65535)],
     [init_register.gen EXCEPT ![1] = Hex64(32768, 0, 0, 0),
                               ![2] = Hex64(32767, 65535, 0, 0)],
     init_register.gen}

InitFlag ==
    /\ AsmIdle
    /\ gen_registers \in FlagRegisters
    /\ program_counter = init_register.pc
    /\ pstate \in BrFlags
    /\ mem = set_word(init_memory, U32(16), U32(305419896))
    /\ cpu_pc = "running"
    /\ last = [kind |-> "none"]
    /\ nsteps = 0
    /\ call = [op |-> "none"]

\* one iteration of run_cpu's loop on the word inst
FlagExecute(inst) ==
    /\ call.op = "none"
    /\ \E c \in {run_cpu_body(CpuRec, inst)} :
           /\ gen_registers' = c.gen_registers
           /\ program_counter' = c.program_counter
           /\ pstate' = c.pstate
           /\ mem' = c.mem
           /\ cpu_pc' = IF c.status = "ok" THEN "running" ELSE c.status
    /\ call' = [op |-> "exec", word |-> inst]
    /\ UNCHANGED <<asm_vars, last, nsteps>>

NextFlag == \E inst \in FlagWords : FlagExecute(inst)

SpecFlag == InitFlag /\ [][NextFlag]_vars

-----------------------------------------------------------------------------
(* Claims about the flags (checked under SpecFlag) *)

\* adds or subs (opc_flag = 1), in the immediate or the register form
IsAddsSubs(inst) ==
    \/ /\ Get(inst, "GeneralDpImm", "op0") = ITP_DP_IMM
       /\ Get(inst, "ImmArith", "opi") = ITP_IMM_ARITH
       /\ Get(inst, "ImmArith", "opc_flag") = 1
    \/ /\ executor_of(inst) = "exec_reg_arithmetic"
       /\ Get(inst, "RegArith", "opc_flag") = 1

\* ands or bics (opc = AND_W_FLAGS)
IsAndsBics(inst) ==
    /\ executor_of(inst) = "exec_reg_logic"
    /\ Get(inst, "RegLogic", "opc") = ITP_AND_W_FLAGS

\* the width of the instruction
FlagAtWidth(inst, v) == IF Get(inst, "RegLogic", "sf") # 0 THEN v ELSE Trunc32(v)

\* the result of the ands or bics just executed: what rd holds after it, or,
\* for tst (rd = 31, no shift, N = 0), the and of the two registers
FlagResult(inst) ==
    FlagAtWidth(inst,
        IF Get(inst, "RegLogic", "rd") # 31
        THEN gen_registers'[Get(inst, "RegLogic", "rd")]
        ELSE AndL(gen_registers[Get(inst, "RegLogic", "rn")],
                  gen_registers[Get(inst, "RegLogic", "rm")]))

C31_Step ==
    call'.op = "exec" =>
        /\ pstate' # pstate => IsAddsSubs(call'.word) \/ IsAndsBics(call'.word)
        /\ IsAndsBics(call'.word) =>
               LET Sets(result) ==
                       /\ pstate'.negative_flag = (BitL(result, 16 * Len(result) - 1) = 1)
                       /\ pstate'.zero_flag = (result = [i \in 1..Len(result) |-> 0])
                       /\ pstate'.carry_flag = FALSE
                       /\ pstate'.overflow_flag = FALSE
               IN  Sets(FlagResult(call'.word))

\* C31: PState changes only when a flag-setting instruction executes (adds
\* or subs with opc_flag = 1, ands or bics with opc = AND_W_FLAGS); ands and
\* bics set N to the sign bit of the result at the sf width, Z to
\* (result == 0) and C = V = 0; every other instruction leaves N, Z, C and V
\* unchanged.
C31_PStateFrame == [][C31_Step]_vars

\* ands w3, w1, w2 with W1 = 0x80000001 and all four flags clear but C and V:
\* N is set from bit 31, C and V are cleared
C31_Witness ==
    /\ call = [op |-> "exec", word |-> WordOfLine(<< <<"a", "n", "d", "s">>, <<"w", "3">>, <<"w", "1">>, <<"w", "2">> >>)]
    /\ gen_registers[3] = Hex64(0, 0, 32768, 1)
    /\ pstate = [negative_flag |-> TRUE, zero_flag |-> FALSE,
                 carry_flag |-> FALSE, overflow_flag |-> FALSE]

\* str x1, [x0, #16] executed with all four flags set: they stay set
C31_WitnessStore ==
    /\ call = [op |-> "exec", word |-> WordOfLine(<< <<"s", "t", "r">>, <<"x", "1">>, <<"[", "x", "0">>, <<"#", "1", "6", "]">> >>)]
    /\ get_double_word(mem, U32(16)) = Hex64(0, 0, 32768, 1)
    /\ pstate = [negative_flag |-> TRUE, zero_flag |-> TRUE,
                 carry_flag |-> TRUE, overflow_flag |-> TRUE]

-----------------------------------------------------------------------------
(* SpecMul: a multiply line is assembled and its word executed by one      *)
(* iteration of run_cpu's loop, from registers with small values, values   *)
(* whose product wraps at 32 and at 64 bits, and all ones.  call keeps the *)
(* line and the word.                                                      *)

MulLines == {
    \* madd x3, x1, x2, x0
    << <<"m", "a", "d", "d">>, <<"x", "3">>, <<"x", "1">>, <<"x", "2">>, <<"x", "0">> >>,
    \* msub x3, x1, x2, x0
    << <<"m", "s", "u", "b">>, <<"x", "3">>, <<"x", "1">>, <<"x", "2">>, <<"x", "0">> >>,
    \* madd w3, w1, w2, w0
    << <<"m", "a", "d", "d">>, <<"w", "3">>, <<"w", "1">>, <<"w", "2">>, <<"w", "0">> >>,
    \* msub w3, w1, w2, w0
    << <<"m", "s", "u", "b">>, <<"w", "3">>, <<"w", "1">>, <<"w", "2">>, <<"w", "0">> >>,
    \* madd x1, x1, x1, x1
    << <<"m", "a", "d", "d">>, <<"x", "1">>, <<"x", "1">>, <<"x", "1">>, <<"x", "1">> >>,
    \* msub x3, x1, x2, xzr
    << <<"m", "s", "u", "b">>, <<"x", "3">>, <<"x", "1">>, <<"x", "2">>, <<"x", "z", "r">> >>,
    \* mul x3, x1, x2
    << <<"m", "u", "l">>, <<"x", "3">>, <<"x", "1">>, <<"x", "2">> >>,
    \* mul w3, w1, w2
    << <<"m", "u", "l">>, <<"w", "3">>, <<"w", "1">>, <<"w", "2">> >>,
    \* mneg x3, x1, x2
    << <<"m", "n", "e", "g">>, <<"x", "3">>, <<"x", "1">>, <<"x", "2">> >>,
    \* mneg w3, w1, w2
    << <<"m", "n", "e", "g">>, <<"w", "3">>, <<"w", "1">>, <<"w", "2">> >> }

\* 3, 0x0000000100010003, 0xDEADBEEF12345678, all ones
MulValues == {Hex64(0, 0, 0, 3), Hex64(0, 1, 1, 3),
              Hex64(57005, 48879, 4660, 22136), Hex64(65535, 65535, 65535, 65535)}

\* X0 = 7 or 0x8000000000000000; X1 and X2 any of MulValues; X3 all ones
MulRegisters ==
    {[init_register.gen EXCEPT ![0] = a, ![1] = n, ![2] = m,
                               ![3] = Hex64(65535, 65535, 65535, 65535)] :
        a \in {Hex64(0, 0, 0, 7), Hex64(32768, 0, 0, 0)},
        n \in MulValues, m \in MulValues}

InitMul ==
    /\ AsmIdle
    /\ gen_registers \in MulRegisters
    /\ program_counter = init_register.pc
    /\ pstate \in {init_pstate, [negative_flag |-> TRUE, zero_flag |-> FALSE,
                                 carry_flag |-> TRUE, overflow_flag |-> TRUE]}
    /\ mem = init_memory
    /\ cpu_pc = "running"
    /\ last = [kind |-> "none"]
    /\ nsteps = 0
    /\ call = [op |-> "none"]

\* decode on the line, then one iteration of run_cpu's loop on its word
MulExecute(line) ==
    /\ call.op = "none"
    /\ \E inst \in {WordOfLine(line)} :
           /\ \E c \in {run_cpu_body(CpuRec, inst)} :
                  /\ gen_registers' = c.gen_registers
                  /\ program_counter' = c.program_counter
                  /\ pstate' = c.pstate
                  /\ mem' = c.mem
                  /\ cpu_pc' = IF c.status = "ok" THEN "running" ELSE c.status
           /\ call' = [op |-> "exec", line |-> line, word |-> inst]
    /\ UNCHANGED <<asm_vars, last, nsteps>>

NextMul == \E line \in MulLines : MulExecute(line)

SpecMul == InitMul /\ [][NextMul]_vars

-----------------------------------------------------------------------------
(* Claims about the multiplications (checked under SpecMul) *)

\* a * b modulo 2^(16 * Len(a)) by doubling and adding.  a times one limb of b:
\* going down the bits of the limb, the sum so far is doubled and a is added
\* where the bit is set; the product for limb j counts 2^(16 * (j - 1)) times
MulProduct(a, b) ==
    LET One(S) == CHOOSE s \in S : TRUE
        zero == [k \in 1..Len(a) |-> 0]
        Step(S, x, bit) ==
            {IF bit = 1 THEN PlusL(d, x) ELSE d :
                d \in {PlusL(sofar, sofar) : sofar \in S}}
        Up(x, j) == [k \in 1..Len(a) |-> IF k >= j THEN x[k - j + 1] ELSE 0]
        part[j \in 1..Len(a)] ==
            LET acc[i \in 0..16] ==
                    IF i = 0 THEN {zero}
                    ELSE Step(acc[i-1], a, (b[j] \div Pow2(16 - i)) % 2)
            IN  {Up(p, j) : p \in acc[16]}
        sum[j \in 0..Len(a)] ==
            IF j = 0 THEN {zero}
            ELSE {PlusL(p, q) : p \in sum[j-1], q \in part[j]}
    IN  One(sum[Len(a)])

\* the value of register r before the instruction, at the width of sf;
\* register 31 is the zero register
MulOperand(sf, r) ==
    LET At(v) == IF sf # 0 THEN v ELSE Trunc32(v)
    IN  At(IF r = 31 THEN U64(0) ELSE gen_registers[r])

\* (ra + rn * rm) or (ra - rn * rm) modulo 2^w
MulExpected(sf, rn, rm, ra, subtract) ==
    CHOOSE v \in
        {ZExt64(IF subtract THEN MinusL(acc, product) ELSE PlusL(acc, product)) :
            acc \in {MulOperand(sf, ra)},
            product \in {MulProduct(n, m) : n \in {MulOperand(sf, rn)},
                                            m \in {MulOperand(sf, rm)}}} : TRUE

\* the opcode of the line is mul or mneg, or msub or mneg
MulIsAlias(line) == line[1] \in {<<"m", "u", "l">>, <<"m", "n", "e", "g">>}
MulSubtracts(line) == line[1] \in {<<"m", "s", "u", "b">>, <<"m", "n", "e", "g">>}

C32_Step ==
    call'.op = "exec" =>
        \A line \in {call'.line} : \A inst \in {call'.word} :
        \A sf \in {Get(inst, "RegMultiply", "sf")} :
        \A rd \in {Get(inst, "RegMultiply", "rd")} :
        \A rn \in {Get(inst, "RegMultiply", "rn")} :
        \A rm \in {Get(inst, "RegMultiply", "rm")} :
        \A ra \in {Get(inst, "RegMultiply", "ra")} :
            /\ cpu_pc' = "running"
            /\ executor_of(inst) = "exec_reg_multiply"
            /\ MulIsAlias(line) => ra = 31
            /\ gen_registers'[rd] =
                   MulExpected(sf, rn, rm, IF MulIsAlias(line) THEN 31 ELSE ra,
                               MulSubtracts(line))
            /\ \A r \in 0..30 : r # rd => gen_registers'[r] = gen_registers[r]
            /\ pstate' = pstate
            /\ mem' = mem

\* C32: madd writes (ra + rn * rm) mod 2^w and msub (ra - rn * rm) mod 2^w to
\* rd at the width w that sf selects, without changing any flag; for the
\* aliases mul and mneg the accumulator is the zero register (ra = 31 in the
\* word) and reads as 0, so mul gives (rn * rm) mod 2^w and mneg
\* (-(rn * rm)) mod 2^w.
C32_Multiply == [][C32_Step]_vars

\* mneg w3, w1, w2 with W1 = 3 and W2 = 0xFFFFFFFF: -(3 * -1) = 3, and the
\* upper half of X3 is cleared
C32_Witness ==
    /\ call.op = "exec"
    /\ call.line = << <<"m", "n", "e", "g">>, <<"w", "3">>, <<"w", "1">>, <<"w", "2">> >>
    /\ gen_registers[1] = Hex64(0, 0, 0, 3)
    /\ gen_registers[2] = Hex64(65535, 65535, 65535, 65535)
    /\ gen_registers[3] = Hex64(0, 0, 0, 3)

\* msub x3, x1, x2, x0 with X0 = 7, X1 = 0xDEADBEEF12345678 and X2 = 3
C32_WitnessWide ==
    /\ call.op = "exec"
    /\ call.line = << <<"m", "s", "u", "b">>, <<"x", "3">>, <<"x", "1">>, <<"x", "2">>, <<"x", "0">> >>
    /\ gen_registers[0] = Hex64(0, 0, 0, 7)
    /\ gen_registers[1] = Hex64(57005, 48879, 4660, 22136)
    /\ gen_registers[2] = Hex64(0, 0, 0, 3)
    /\ gen_registers[3] = MinusL(Hex64(0, 0, 0, 7),
                                 PlusL(PlusL(gen_registers[1], gen_registers[1]),
                                       gen_registers[1]))

-----------------------------------------------------------------------------
(* SpecAgree: the debugger's loop, step_instruction called until it        *)
(* returns false (or the process ends, or MaxStepCalls calls were made),   *)
(* on the emulator state that init_cpu leaves for an assembled program.    *)
(* run_cpu on the same image is the operator run_cpu.                      *)

\* run_cpu from the state c: the state when the loop ends at HALT_INSTRUCTION
\* (status "halted"), when the process is ended (the status of the error),
\* or after fuel iterations (status "running")
RECURSIVE run_cpu(_, _)
run_cpu(c, fuel) ==
    IF ~fetch_ok(c) THEN Fatal(c)
    ELSE IF fetch(c) = HALT_INSTRUCTION THEN [c EXCEPT !.status = "halted"]
    ELSE IF fuel = 0 THEN [c EXCEPT !.status = "running"]
    ELSE CHOOSE r \in {IF c1.status # "ok" THEN c1 ELSE run_cpu(c1, fuel - 1) :
                          c1 \in {run_cpu_body(c, fetch(c))}} : TRUE

\* while (step_instruction()) ;
StepAgain ==
    /\ IF nsteps = 0 THEN TRUE ELSE call.ret
    /\ StepInstruction

NextAgree == StepAgain

SpecAgree == InitCpu /\ [][NextAgree]_vars

-----------------------------------------------------------------------------
(* Claims about stepping and running (checked under SpecAgree) *)

\* the state init_cpu leaves for the assembled image
AgreeInitial ==
    [gen_registers |-> init_register.gen, program_counter |-> init_register.pc,
     pstate |-> init_pstate, mem |-> load_instructions_to_memory(instructions),
     status |-> "ok"]

\* step_instruction has returned false
SteppedToFalse == nsteps > 0 /\ cpu_pc = "running" /\ call.ret = FALSE

\* C33: from the same loaded image and initial state, calling
\* step_instruction until it returns false leaves exactly the same
\* registers, PC, PState and memory as run_cpu does when it stops at HALT.
C33_SteppingAgrees ==
    SteppedToFalse =>
        \A r \in {run_cpu(AgreeInitial, MaxStepCalls)} :
            r.status = "halted" =>
                /\ gen_registers = r.gen_registers
                /\ program_counter = r.program_counter
                /\ pstate = r.pstate
                /\ mem = r.mem

\* what the two do agree on: run_cpu stops at the same HALT_INSTRUCTION with
\* the same registers, PState and memory, and with the PC on the halt word,
\* 4 below the PC that the last step_instruction leaves
C33_AgreeButPc ==
    SteppedToFalse =>
        \A r \in {run_cpu(AgreeInitial, MaxStepCalls)} :
            /\ r.status = "halted"
            /\ gen_registers = r.gen_registers
            /\ program_counter = PlusL(r.program_counter, U64(4))
            /\ pstate = r.pstate
            /\ mem = r.mem

-----------------------------------------------------------------------------
(* The debugger (extension/debugger.c).  debugger_init assembles the lines *)
(* of the source file with decode_debug, which fills address_to_line, and  *)
(* loads the image; debugger_run then reads commands at the prompt.  The   *)
(* statics of the debugger are the record last = [breakpoints,             *)
(* program_running, cur_line_number, address_to_line]; cpu_pc is the       *)
(* position of the process: "prompt" (parse_input is awaited), "entering"  *)
(* (parse_input has called debugger_run_cpu, no iteration made yet),       *)
(* "loop" (in the loop of debugger_run_cpu), "exited" (a fatal error of    *)
(* the emulator) or "crashed"; call is the command being served.           *)

\* decode_debug over the lines of the file, line numbers from 1: the state of
\* the assembler and the map from the address of every line that emitted a
\* word to its line number
debugger_decode_all(lines) ==
    LET Line(p, st, i) ==
            [st |-> st, map |-> IF st.current_address = p.st.current_address
                                THEN p.map
                                ELSE Append(p.map, <<p.st.current_address, i>>)]
        r[i \in 0..Len(lines)] ==
            IF i = 0 THEN [st |-> decode_init, map |-> << >>]
            ELSE CHOOSE x \in {Line(p, decode(p.st, lines[i]), i) : p \in {r[i-1]}} : TRUE
    IN  r[Len(lines)]

\* hashmap_get(address_to_line, int_to_string(address)): the line numbers the
\* pointer returned points to, none when it is NULL (no line was assembled at
\* the address)
address_to_line_get(map, address) ==
    {map[i][2] : i \in {k \in 1..Len(map) : map[k][1] = address}}

\* (int) get_spec_register(PROGRAM_COUNTER)
DbgAddress(pc) ==
    IF pc[2] < 32768 THEN pc[1] + LIMB * pc[2] ELSE pc[1] + LIMB * (pc[2] - LIMB)

\* get_line_number: atoi of the argument (string_is_number returns true for
\* every string), 0 unless it is in 1 .. darray_length(assembly_lines)
get_line_number(str, length) ==
    LET InRange(line_num) == IF line_num <= 0 \/ line_num > length THEN 0 ELSE line_num
    IN  InRange(atoi(str))

\* debugger_reset_memory: init_register, init_memory and the image loaded
\* again; the PState of cpu.c is not touched
debugger_reset_memory(c, words) ==
    [c EXCEPT !.gen_registers = init_register.gen, !.program_counter = init_register.pc,
              !.mem = load_instructions_to_memory(words)]

\* debugger_step_instruction: the emulator state c and the statics d
\* afterwards, the address of the executed word, and the value returned (go);
\* status is "exited" after a fatal error, and "crashed" when the new program
\* counter is no key of address_to_line and the NULL that hashmap_get returns
\* is dereferenced
debugger_step_instruction(c, d) ==
    LET Found(r, lines) ==
            IF lines = {}
            THEN [c |-> r.c, d |-> d, status |-> "crashed", go |-> FALSE]
            ELSE [c |-> r.c,
                  d |-> [d EXCEPT !.cur_line_number = CHOOSE l \in lines : TRUE],
                  status |-> "ok",
                  go |-> \A l \in lines : darray_index_of(d.breakpoints, l) = -1]
        After(r) ==
            IF r.c.status # "ok"
            THEN [c |-> r.c, d |-> d, status |-> "exited", go |-> FALSE]
            ELSE IF r.ret
            THEN Found(r, address_to_line_get(d.address_to_line,
                                              DbgAddress(r.c.program_counter)))
            ELSE [c |-> r.c, d |-> [d EXCEPT !.program_running = FALSE],
                  status |-> "ok", go |-> FALSE]
    IN  CHOOSE x \in {After(r) : r \in {step_instruction(c)}} : TRUE

-----------------------------------------------------------------------------
(* SpecDbg: a debugger session on one of DbgFiles.  The commands are run   *)
(* (with the answer to the restart question), continue, next, break and    *)
(* clear with an argument of DbgArguments; at most MaxBreakpoints          *)
(* breakpoints are held at a time.  The commands that only print (print,   *)
(* info, help, refresh) and quit are not followed.                         *)

MaxBreakpoints == 2

DbgFiles == {
    \* adds x0, x0, #1 ; movz x1, #5 ; and x0, x0, x0
    << << <<"a", "d", "d", "s">>, <<"x", "0">>, <<"x", "0">>, <<"#", "1">> >>,
       << <<"m", "o", "v", "z">>, <<"x", "1">>, <<"#", "5">> >>,
       HaltLine >>,
    \* b end ; movz x1, #5 ; end: ; and x0, x0, x0
    << << <<"b">>, <<"e", "n", "d">> >>,
       << <<"m", "o", "v", "z">>, <<"x", "1">>, <<"#", "5">> >>,
       << <<"e", "n", "d", ":">> >>,
       HaltLine >>,
    \* movz x1, #5 (no halt: the word after the image is executed next)
    << << <<"m", "o", "v", "z">>, <<"x", "1">>, <<"#", "5">> >> >> }

DbgArguments == {<<"0">>, <<"1">>, <<"2">>, <<"3">>, <<"4">>, <<"5">>, <<"2", "x">>}

DbgStatics ==
    [breakpoints |-> last.breakpoints, program_running |-> last.program_running,
     cur_line_number |-> last.cur_line_number, address_to_line |-> last.address_to_line]

\* debugger_init, then debugger_run up to its first window_get_input
InitDbg ==
    \E file \in DbgFiles :
        \E a \in {debugger_decode_all(file)} :
            /\ a.st.ok
            /\ instructions = a.st.instructions
            /\ current_address = a.st.current_address
            /\ labels = a.st.labels
            /\ addresses = a.st.addresses
            /\ asm_pc = "written"
            /\ nlines = Len(file)
            /\ gen_registers = init_register.gen
            /\ program_counter = init_register.pc
            /\ pstate = init_pstate
            /\ mem = load_instructions_to_memory(a.st.instructions)
            /\ cpu_pc = "prompt"
            /\ last = [breakpoints |-> darray_init, program_running |-> FALSE,
                       cur_line_number |-> 1, address_to_line |-> a.map]
            /\ nsteps = 0
            /\ call = [cmd |-> "none", line |-> 0, done |-> FALSE, executed |-> -1]

\* the emulator state c and the statics d are written back
DbgGives(c, d) ==
    /\ gen_registers' = c.gen_registers
    /\ program_counter' = c.program_counter
    /\ pstate' = c.pstate
    /\ mem' = c.mem
    /\ last' = d

\* parse_input on "run": the restart question when the program is running,
\* then program_running = true and debugger_reset_memory, and
\* debugger_run_cpu is entered
DbgRun(answer) ==
    /\ cpu_pc = "prompt"
    /\ IF last.program_running /\ answer = "n"
       THEN /\ call' = [cmd |-> "run", line |-> 0, done |-> FALSE, executed |-> -1]
            /\ UNCHANGED <<gen_registers, program_counter, pstate, mem, last, cpu_pc>>
       ELSE /\ DbgGives(debugger_reset_memory(CpuRec, instructions),
                        [DbgStatics EXCEPT !.program_running = TRUE,
                                           !.cur_line_number = 1])
            /\ cpu_pc' = "entering"
            /\ call' = [cmd |-> "run", line |-> 0, done |-> TRUE, executed |-> -1]
    /\ UNCHANGED <<asm_vars, nsteps>>

\* parse_input on "continue": debugger_run_cpu is entered if the program is
\* running
DbgContinue ==
    /\ cpu_pc = "prompt"
    /\ cpu_pc' = IF last.program_running THEN "entering" ELSE "prompt"
    /\ call' = [cmd |-> "continue", line |-> 0, done |-> last.program_running,
                executed |-> -1]
    /\ UNCHANGED <<asm_vars, gen_registers, program_counter, pstate, mem, last, nsteps>>

\* one call of debugger_step_instruction for the command cmd; the process is
\* at position back when the call returns PROGRAM_HALT, at on when it returns
\* PROGRAM_CONTINUE
DbgStep(cmd, on, back) ==
    \E r \in {debugger_step_instruction(CpuRec, DbgStatics)} :
        /\ DbgGives(r.c, r.d)
        /\ cpu_pc' = IF r.status # "ok" THEN r.status
                     ELSE IF r.go THEN on ELSE back
        /\ call' = [cmd |-> cmd, line |-> 0, done |-> TRUE,
                    executed |-> IF fetch_ok(CpuRec) THEN DbgAddress(program_counter)
                                 ELSE -1]
        /\ UNCHANGED <<asm_vars, nsteps>>

\* parse_input on "next": one debugger_step_instruction if the program is
\* running
DbgNext ==
    /\ cpu_pc = "prompt"
    /\ IF last.program_running
       THEN DbgStep("next", "prompt", "prompt")
       ELSE /\ call' = [cmd |-> "next", line |-> 0, done |-> FALSE, executed |-> -1]
            /\ UNCHANGED <<asm_vars, gen_registers, program_counter, pstate, mem,
                           last, cpu_pc, nsteps>>

\* debugger_run_cpu: while (debugger_step_instruction());
DbgLoop ==
    /\ cpu_pc \in {"entering", "loop"}
    /\ DbgStep(call.cmd, "loop", "prompt")

\* parse_input on "break <arg>": the line number is added to breakpoints
DbgBreak(arg) ==
    /\ cpu_pc = "prompt"
    /\ last.breakpoints.length < MaxBreakpoints
    /\ \E line_num \in {get_line_number(arg, nlines)} :
           /\ last' = IF line_num = 0 THEN last
                      ELSE [last EXCEPT !.breakpoints = darray_add(@, line_num)]
           /\ call' = [cmd |-> "break", line |-> line_num, done |-> line_num # 0,
                       executed |-> -1]
    /\ UNCHANGED <<asm_vars, gen_registers, program_counter, pstate, mem, cpu_pc, nsteps>>

\* parse_input on "clear <arg>": the slot darray_index_of finds is removed
DbgClear(arg) ==
    /\ cpu_pc = "prompt"
    /\ \E line_num \in {get_line_number(arg, nlines)} :
       \E line_num_index \in {IF line_num = 0 THEN -1
                              ELSE darray_index_of(last.breakpoints, line_num)} :
           /\ last' = IF line_num_index = -1 THEN last
                      ELSE [last EXCEPT !.breakpoints =
                                            darray_remove(@, line_num_index).da]
           /\ call' = [cmd |-> "clear", line |-> line_num,
                       done |-> line_num_index # -1, executed |-> -1]
    /\ UNCHANGED <<asm_vars, gen_registers, program_counter, pstate, mem, cpu_pc, nsteps>>

NextDbg ==
    \/ \E answer \in {"y", "n"} : DbgRun(answer)
    \/ DbgContinue
    \/ DbgNext
    \/ DbgLoop
    \/ \E arg \in DbgArguments : DbgBreak(arg)
    \/ \E arg \in DbgArguments : DbgClear(arg)

SpecDbg == InitDbg /\ [][NextDbg]_vars

-----------------------------------------------------------------------------
(* Claims about the debugger (checked under SpecDbg) *)

\* parse_input has served "run" up to the call of debugger_run_cpu: the
\* execution begins
DbgRunBegins == cpu_pc = "entering" /\ call.cmd = "run"

\* C34: every run command (first start or confirmed restart) begins
\* execution from the same initial state: all general registers 0, PC 0,
\* memory equal to the assembled image, and PState equal to its power-on
\* value, whatever the previous run executed.
C34_RestartResets ==
    DbgRunBegins =>
        /\ gen_registers = init_register.gen
        /\ program_counter = init_register.pc
        /\ mem = load_instructions_to_memory(instructions)
        /\ pstate = init_pstate

\* what does hold when a run begins: registers, PC and memory are reset, and
\* the PState is the power-on value or what the previous run left
C34_ResetButPState ==
    DbgRunBegins =>
        /\ gen_registers = init_register.gen
        /\ program_counter = init_register.pc
        /\ mem = load_instructions_to_memory(instructions)

\* this step is an iteration of debugger_run_cpu that executes the word of a
\* line that carries a breakpoint
DbgExecutesBreakpointLine ==
    /\ cpu_pc \in {"entering", "loop"}
    /\ call'.executed # -1
    /\ \E l \in address_to_line_get(last.address_to_line, call'.executed) :
           darray_index_of(last.breakpoints, l) # -1

\* the debugger stopped at the line of the program counter and was told to
\* continue: it was at the prompt with this line as cur_line_number, and
\* debugger_run_cpu has made no iteration since
DbgStoppedHere ==
    /\ cpu_pc = "entering"
    /\ call.cmd = "continue"
    /\ last.cur_line_number \in
           address_to_line_get(last.address_to_line, DbgAddress(program_counter))

C35_Step == DbgExecutesBreakpointLine => DbgStoppedHere

\* C35: while the debugger executes run or continue, the instruction on a
\* source line that carries a breakpoint is never executed without the
\* debugger first stopping at that line; this holds for every instruction
\* line, including the line of the first instruction (address 0) right after
\* run.
C35_StopBeforeExecution == [][C35_Step]_vars

\* what does hold: the only instruction executed without a stop on a line
\* with a breakpoint is the first one after run
C35_StopButAfterRun ==
    [][(DbgExecutesBreakpointLine /\ ~DbgRunBegins) => DbgStoppedHere]_vars

\* the number of slots of breakpoints that hold line
DbgCount(da, line) == Cardinality({i \in 0..(da.length - 1) : da.array[i] = line})

\* a clear command that found the line among the breakpoints
DbgCleared == call'.cmd = "clear" /\ call'.done

C36_Step == DbgCleared => darray_index_of(last'.breakpoints, call'.line) = -1

\* C36: after a successful clear N, for any earlier sequence of break and
\* clear commands (break N issued more than once included), line N is no
\* longer in the breakpoint set and execution no longer stops there.
C36_ClearRemoves == [][C36_Step]_vars

\* what does hold: a successful clear N removes one of the entries for N and
\* no other entry
C36_ClearRemovesOne ==
    [][DbgCleared =>
          \A l \in 1..nlines :
              DbgCount(last'.breakpoints, l) =
                  DbgCount(last.breakpoints, l) - (IF l = call'.line THEN 1 ELSE 0)]_vars

-----------------------------------------------------------------------------
(* Claims about the slots that darray_iterator reads (checked under SpecDa) *)

\* C37: no call of darray_iterator made by a loop of the form
\* while (darray_iterator(da, &i, &e)) started at i = 0 reads an array slot
\* at an index >= length (and hence never a slot at or beyond capacity), for
\* every length including 0 and length == capacity.
C37_IteratorInBounds ==
    call.op = "darray_iterator" => call.index < instructions.length

\* what does hold: the calls that return true read the slots below length,
\* and the call that returns false reads the slot at index length
C37_IteratorReadsLength ==
    call.op = "darray_iterator" =>
        /\ call.ret <=> call.index < instructions.length
        /\ ~call.ret <=> call.index = instructions.length

-----------------------------------------------------------------------------
(* SpecWrap: run_cpu on the image of a program that loads an address into  *)
(* x1 (inside the memory, at its end, at 2^32, just below 2^64), uses it   *)
(* as the base of a transfer or the target of a branch, and halts.         *)

WrapAddressLines == {
    \* movz x1, #0x100
    << <<"m", "o", "v", "z">>, <<"x", "1">>, <<"#", "0", "x", "1", "0", "0">> >>,
    \* movz x1, #0x20, lsl #16 (2^21)
    << <<"m", "o", "v", "z">>, <<"x", "1">>, <<"#", "0", "x", "2", "0">>, <<"l", "s", "l">>, <<"#", "1", "6">> >>,
    \* movz x1, #1, lsl #32 (2^32)
    << <<"m", "o", "v", "z">>, <<"x", "1">>, <<"#", "1">>, <<"l", "s", "l">>, <<"#", "3", "2">> >>,
    \* movz x1, #0x8000, lsl #48 (2^63)
    << <<"m", "o", "v", "z">>, <<"x", "1">>, <<"#", "0", "x", "8", "0", "0", "0">>, <<"l", "s", "l">>, <<"#", "4", "8">> >>,
    \* movn x1, #7 (2^64 - 8)
    << <<"m", "o", "v", "n">>, <<"x", "1">>, <<"#", "7">> >> }

WrapAccessLines == {
    \* ldr x3, [x1]
    << <<"l", "d", "r">>, <<"x", "3">>, <<"[", "x", "1", "]">> >>,
    \* ldr w3, [x1]
    << <<"l", "d", "r">>, <<"w", "3">>, <<"[", "x", "1", "]">> >>,
    \* str x1, [x1, #16]
    << <<"s", "t", "r">>, <<"x", "1">>, <<"[", "x", "1">>, <<"#", "1", "6", "]">> >>,
    \* str w1, [x1, #16]!
    << <<"s", "t", "r">>, <<"w", "1">>, <<"[", "x", "1">>, <<"#", "1", "6", "]", "!">> >>,
    \* ldr x3, [x1, #16]!
    << <<"l", "d", "r">>, <<"x", "3">>, <<"[", "x", "1">>, <<"#", "1", "6", "]", "!">> >>,
    \* str x1, [x1], #8
    << <<"s", "t", "r">>, <<"x", "1">>, <<"[", "x", "1", "]">>, <<"#", "8">> >>,
    \* ldr x3, [x1, x1]
    << <<"l", "d", "r">>, <<"x", "3">>, <<"[", "x", "1">>, <<"x", "1", "]">> >>,
    \* br x1
    << <<"b", "r">>, <<"x", "1">> >> }

WrapPrograms == {<<a, b, HaltLine>> : a \in WrapAddressLines, b \in WrapAccessLines}

\* main of assemble.c on a program, then init_cpu on the file it wrote
InitWrap ==
    \E prog \in WrapPrograms :
        \E st \in {decode_all(decode_init, prog)} :
            /\ st.ok
            /\ instructions = st.instructions
            /\ current_address = st.current_address
            /\ labels = st.labels
            /\ addresses = st.addresses
            /\ asm_pc = "written"
            /\ nlines = Len(prog)
            /\ gen_registers = init_register.gen
            /\ program_counter = init_register.pc
            /\ pstate = init_pstate
            /\ mem = load_instructions_to_memory(st.instructions)
            /\ cpu_pc = "running"
            /\ last = [kind |-> "none"]
            /\ nsteps = 0
            /\ call = NoneExecuted

NextWrap == Halt \/ FetchFault \/ Execute

SpecWrap == InitWrap /\ [][NextWrap]_vars

-----------------------------------------------------------------------------
(* Claims about addresses beyond the memory (checked under SpecWrap) *)

\* a 64-bit address at or beyond the 2^21 bytes of the memory
WrapBeyond(a) == ~(a[3] = 0 /\ a[4] = 0 /\ a[2] < NUM_OF_MEMORY_ADDRESS \div LIMB)

\* a load or store whose address is a base register plus an offset
WrapIsTransfer(w) ==
    executor_of(w) \in {"exec_dt_imm_offset", "exec_dt_reg_offset",
                        "exec_dt_pre_index", "exec_dt_post_index"}

\* this step executes a load or store at a 64-bit address beyond the memory
WrapTransferBeyond ==
    /\ last'.kind = "exec" /\ nsteps' = nsteps + 1
    /\ WrapIsTransfer(last'.word)
    /\ WrapBeyond(EffectiveAddress(last'.word))

\* this step fetches at a 64-bit program counter beyond the memory
WrapFetchBeyond == cpu_pc = "running" /\ WrapBeyond(program_counter)

C38_Step == (WrapFetchBeyond \/ WrapTransferBeyond) => cpu_pc' = "fatal"

\* C38: an instruction fetch, load or store whose 64-bit address (PC, or the
\* base register plus offset computed modulo 2^64) lies at or beyond the
\* 2^21-byte capacity never succeeds: it always ends in a fatal bounds error
\* and never reads or writes a low memory address obtained by truncating the
\* address to 32 bits.
C38_NoWrapAround == [][C38_Step]_vars

\* what does hold: the bounds error comes when the low 32 bits of the
\* address lie beyond the memory
C38_LowBitsBounded ==
    [][/\ (cpu_pc = "running" /\ WrapBeyond(ZExt64(Trunc32(program_counter))))
            => cpu_pc' = "fatal"
       /\ (/\ last'.kind = "exec" /\ nsteps' = nsteps + 1
           /\ WrapIsTransfer(last'.word)
           /\ WrapBeyond(ZExt64(Trunc32(EffectiveAddress(last'.word)))))
            => cpu_pc' = "fatal"]_vars

====
